---------------------------- MODULE Spec2Model ----------------------------
(***************************************************************************)
(* State-machine model of the StellarSave Soroban contracts.               *)
(*                                                                         *)
(*   - cross-border-yield/lib.rs : yield pools, positions, distribution    *)
(*   - savings-challenge/lib.rs  : goal challenges, contributions, streaks *)
(*   - savings_challenge.rs      : milestone-tracking challenges           *)
(*   - reward-token/lib.rs       : SaveCoin balances, minting, rewards     *)
(*   - timelock_vault.rs         : time-locked token deposits              *)
(*                                                                         *)
(* Every contract call is one atomic step.  A call that returns Err or     *)
(* traps (panic!, expect, division by zero) leaves the storage unchanged:  *)
(* the Soroban host rolls the invocation back.  The call and its outcome   *)
(* are recorded in lastCall so that properties can speak about failing     *)
(* calls as well as successful ones.                                       *)
(*                                                                         *)
(* i128/u64/u32 arithmetic is modelled on unbounded integers: all values   *)
(* reached within the bounds below are far from the type limits.           *)
(***************************************************************************)
EXTENDS Integers, Sequences, FiniteSets, TLC

VARIABLES
    \* ---- cross-border-yield/lib.rs ----
    admin,          \* DataKey::Admin
    nextPoolId,     \* DataKey::NextPoolId
    pools,          \* DataKey::YieldPool(id): function from the stored ids
    userPositions,  \* DataKey::UserPositions(user): Vec<YieldPosition>
    tvl,            \* DataKey::TotalValueLocked
    exchangeRates,  \* DataKey::ExchangeRates(pair), for the stored pairs
    deposited,      \* history: per <<user, pool>>, <<number, sum>> of successful deposits
    calls,          \* history: number of successful calls
    \* ---- savings-challenge/lib.rs ----
    challengeAdmin,     \* DataKey::Admin
    nextChallengeId,    \* DataKey::NextChallengeId
    challenges,         \* DataKey::Challenge(id)
    contributions,      \* DataKey::Contributions(id): Vec<Contribution>
    participantStats,   \* DataKey::ParticipantStats(id, participant)
    finalized,          \* history: ids whose finalize_challenge has succeeded
    \* ---- savings_challenge.rs ----
    totalChallenges,    \* DataKey::TotalChallenges
    msChallenges,       \* DataKey::Challenge(id)
    userProgress,       \* DataKey::UserProgress(id, user)
    groupMilestones,    \* DataKey::GroupMilestones(id): Vec<Milestone>
    userMilestones,     \* DataKey::UserMilestones(id, user): Vec<Milestone>
    \* ---- reward-token/lib.rs ----
    tokenAdmin,         \* DataKey::Admin
    minters,            \* DataKey::MinterContracts: Vec<Address>
    rewardConfig,       \* DataKey::RewardConfig
    balances,           \* DataKey::Balance(address)
    allowances,         \* DataKey::Allowance(owner, spender)
    totalSupply,        \* DataKey::Metadata, field total_supply
    rewardHistory,      \* DataKey::RewardHistory(user): Vec<RewardRecord>
    rewardStats,        \* DataKey::RewardStats(type)
    totalRewards,       \* DataKey::TotalRewards
    \* ---- timelock_vault.rs ----
    vaultAdmin,         \* DataKey::Admin
    vaultDeposits,      \* DataKey::Deposit(user), for the stored keys
    totalDeposits,      \* DataKey::TotalDeposits
    vaultHeld,          \* the token balance of the vault contract's address
    \* ---- shared ----
    now,            \* env.ledger().timestamp()
    lastCall        \* the last contract call: operation, arguments, outcome

yieldVars == <<admin, nextPoolId, pools, userPositions, tvl, exchangeRates, deposited>>
challengeVars == <<challengeAdmin, nextChallengeId, challenges, contributions,
                   participantStats, finalized>>
milestoneVars == <<totalChallenges, msChallenges, userProgress, groupMilestones,
                   userMilestones>>
rewardVars == <<tokenAdmin, minters, rewardConfig, balances, allowances,
                totalSupply, rewardHistory, rewardStats, totalRewards>>
vaultVars == <<vaultAdmin, vaultDeposits, totalDeposits, vaultHeld>>
vars == <<yieldVars, challengeVars, milestoneVars, rewardVars, vaultVars, calls, now, lastCall>>
notYieldVars == <<challengeVars, milestoneVars, rewardVars, vaultVars, now>>
notChallengeVars == <<yieldVars, milestoneVars, rewardVars, vaultVars>>
notMilestoneVars == <<yieldVars, challengeVars, rewardVars, vaultVars>>
notRewardVars == <<yieldVars, challengeVars, milestoneVars, vaultVars, now>>
notVaultVars == <<yieldVars, challengeVars, milestoneVars, rewardVars>>

-----------------------------------------------------------------------------
(* Bounds of the model and input domains                                   *)

MaxCalls == 4    \* successful calls and clock steps in one run

Admin == "admin"
Users == {"u1", "u2"}
NotAdmin == "u1"

\* <<min_deposit, max_deposit>> pairs offered to create_yield_pool
PoolBounds == {<<1, 2>>, <<0, 1>>, <<3, 1>>}
DepositAmounts == {0, 1, 2, 3}
YieldAmounts == {-1, 2, 5}

NoAdmin == "none"       \* DataKey::Admin is not stored
PoolPair == "USD-MXN"   \* "{base_currency}-{target_currency}" of the pools
DefaultRate == 1000000000   \* 100_0000000i128, "Default 1:1 rate"
RateInputs == {5}

-----------------------------------------------------------------------------
(* Arithmetic                                                              *)

Abs(x) == IF x < 0 THEN -x ELSE x

\* Rust's integer `/` on i128: truncation toward zero (b # 0).
TruncDiv(a, b) ==
    IF (a >= 0) = (b > 0) THEN Abs(a) \div Abs(b) ELSE -(Abs(a) \div Abs(b))


-----------------------------------------------------------------------------
(* cross-border-yield/lib.rs : records                                     *)

\* The pool ids a run can store
PoolIds == 1 .. MaxCalls

\* YieldPool, as create_yield_pool builds it.  The name, currency, corridor,
\* APY and lock-duration fields are written once and read by none of the
\* operations modelled here.
NewPool(pool_id, min_deposit, max_deposit) ==
    [id |-> pool_id,
     total_deposited |-> 0,
     total_yield_earned |-> 0,
     participants |-> << >>,
     is_active |-> TRUE,
     min_deposit |-> min_deposit,
     max_deposit |-> max_deposit]

\* YieldPosition, as deposit_to_pool builds it (timestamps left out: no
\* modelled operation reads them).
NewPosition(user, pool_id, amount, auto_compound) ==
    [user |-> user,
     pool_id |-> pool_id,
     principal |-> amount,
     yield_earned |-> 0,
     auto_compound |-> auto_compound]

Contains(seq, x) == \E i \in 1 .. Len(seq) : seq[i] = x

Call(op, who, pool_id, amount, flag, result) ==
    [op |-> op, who |-> who, pool_id |-> pool_id, amount |-> amount,
     flag |-> flag, result |-> result]

-----------------------------------------------------------------------------
(* cross-border-yield/lib.rs : views of the storage                        *)

RECURSIVE SumPrincipal(_, _)
\* Sum of principal over the positions of the sequence ps that reference pool_id
SumPrincipal(ps, pool_id) ==
    IF ps = << >> THEN 0
    ELSE (IF Head(ps).pool_id = pool_id THEN Head(ps).principal ELSE 0)
         + SumPrincipal(Tail(ps), pool_id)

RECURSIVE SumYieldEarned(_, _)
SumYieldEarned(ps, pool_id) ==
    IF ps = << >> THEN 0
    ELSE (IF Head(ps).pool_id = pool_id THEN Head(ps).yield_earned ELSE 0)
         + SumYieldEarned(Tail(ps), pool_id)

RECURSIVE PrincipalOverUsers(_, _, _)
PrincipalOverUsers(up, us, pool_id) ==
    IF us = {} THEN 0
    ELSE LET u == CHOOSE x \in us : TRUE
         IN SumPrincipal(up[u], pool_id) + PrincipalOverUsers(up, us \ {u}, pool_id)

RECURSIVE YieldEarnedOverUsers(_, _, _)
YieldEarnedOverUsers(up, us, pool_id) ==
    IF us = {} THEN 0
    ELSE LET u == CHOOSE x \in us : TRUE
         IN SumYieldEarned(up[u], pool_id) + YieldEarnedOverUsers(up, us \ {u}, pool_id)

\* Sum of principal / yield_earned over all stored positions of a pool
PoolPrincipal(up, pool_id) == PrincipalOverUsers(up, Users, pool_id)
PoolYieldEarned(up, pool_id) == YieldEarnedOverUsers(up, Users, pool_id)

PositionsIn(ps, pool_id) == SelectSeq(ps, LAMBDA p : p.pool_id = pool_id)
CountPositions(ps, pool_id) == Len(PositionsIn(ps, pool_id))

RECURSIVE CountOverUsers(_, _, _)
CountOverUsers(up, us, pool_id) ==
    IF us = {} THEN 0
    ELSE LET u == CHOOSE x \in us : TRUE
         IN CountPositions(up[u], pool_id) + CountOverUsers(up, us \ {u}, pool_id)

PoolPositionCount(up, pool_id) == CountOverUsers(up, Users, pool_id)
RECURSIVE TotalPositionsOf(_, _)
TotalPositionsOf(up, us) ==
    IF us = {} THEN 0
    ELSE LET u == CHOOSE x \in us : TRUE
         IN Len(up[u]) + TotalPositionsOf(up, us \ {u})

\* Number of stored positions, over all users
TotalPositions(up) == TotalPositionsOf(up, Users)


-----------------------------------------------------------------------------
(* cross-border-yield/lib.rs : distribute_yield's loops                    *)

\* A share that rounds up instead of truncating
UserShareRoundsUp(position, total_yield, total_deposited) ==
    -((-(position.principal * total_yield)) \div total_deposited)

\* A share that divides before it multiplies
UserShareDividesFirst(position, total_yield, total_deposited) ==
    position.principal * TruncDiv(total_yield, total_deposited)

\* A share computed on the position's balance instead of its principal
UserShareOnBalance(position, total_yield, total_deposited) ==
    TruncDiv((position.principal + position.yield_earned) * total_yield,
             total_deposited)

\* let user_share = (position.principal * total_yield) / pool.total_deposited;
UserShare(position, total_yield, total_deposited) ==
    TruncDiv(position.principal * total_yield, total_deposited)

\* A credit that adds the share to the principal whatever the flag
CreditPositionAlwaysCompounds(position, share) ==
    [position EXCEPT !.yield_earned = @ + share, !.principal = @ + share]

\* The body of `if position.pool_id == pool_id { ... }` for one position
CreditPosition(position, share) ==
    [position EXCEPT
        !.yield_earned = @ + share,
        !.principal = IF position.auto_compound THEN @ + share ELSE @]

\* A pool total that is raised only after the loop, not between positions
TotalAfterCreditDeferred(position, share, td) == td

\* pool.total_deposited after one position is credited:
\* if position.auto_compound { pool.total_deposited += user_share }
TotalAfterCredit(position, share, td) ==
    IF position.auto_compound THEN td + share ELSE td

RECURSIVE UpdatePositions(_, _, _, _, _)
\* for position in user_positions.iter_mut(): positions i.. of ps, with the
\* pool's running total_deposited td.  trapped: the division met td = 0.
UpdatePositions(ps, i, pool_id, total_yield, td) ==
    IF i > Len(ps)
    THEN [positions |-> ps, total_deposited |-> td, trapped |-> FALSE]
    ELSE IF ps[i].pool_id # pool_id
    THEN UpdatePositions(ps, i + 1, pool_id, total_yield, td)
    ELSE IF td = 0
    THEN [positions |-> ps, total_deposited |-> td, trapped |-> TRUE]
    ELSE LET share == UserShare(ps[i], total_yield, td)
             td1 == TotalAfterCredit(ps[i], share, td)
         IN UpdatePositions([ps EXCEPT ![i] = CreditPosition(ps[i], share)],
                            i + 1, pool_id, total_yield, td1)

RECURSIVE DistributeLoop(_, _, _, _, _, _)
\* for participant in pool.participants.iter(): participants k.. of parts
DistributeLoop(parts, k, up, pool_id, total_yield, td) ==
    IF k > Len(parts)
    THEN [userPositions |-> up, total_deposited |-> td, trapped |-> FALSE]
    ELSE LET r == UpdatePositions(up[parts[k]], 1, pool_id, total_yield, td)
         IN IF r.trapped
            THEN [userPositions |-> up, total_deposited |-> td, trapped |-> TRUE]
            ELSE DistributeLoop(parts, k + 1,
                                [up EXCEPT ![parts[k]] = r.positions],
                                pool_id, total_yield, r.total_deposited)

-----------------------------------------------------------------------------
(* cross-border-yield/lib.rs : operations                                  *)

\* The call failed: nothing is written.  (A run ends with its MaxCalls-th
\* successful call.)
YieldFail(call) ==
    /\ calls < MaxCalls
    /\ lastCall' = call
    /\ UNCHANGED <<yieldVars, calls, notYieldVars>>

\* The call succeeded
YieldOk(call) ==
    /\ calls < MaxCalls
    /\ calls' = calls + 1
    /\ lastCall' = call
    /\ UNCHANGED notYieldVars

\* An administrator check that any caller passes while no administrator is
\* stored
IsStoredAdminOrUnset(caller) == admin = NoAdmin \/ caller = admin

\* get(&DataKey::Admin).ok_or(YieldError::NotAuthorized)? and
\* admin != stored_admin: the caller is the stored administrator
IsStoredAdmin(caller) == admin # NoAdmin /\ caller = admin

CreateYieldPool(caller, min_deposit, max_deposit) ==
    LET call(res) == Call("create_yield_pool", caller, nextPoolId,
                          min_deposit, max_deposit, res)
    IN
    IF ~IsStoredAdmin(caller)
    THEN YieldFail(call("NotAuthorized"))
    ELSE /\ pools' = (nextPoolId :> NewPool(nextPoolId, min_deposit, max_deposit))
                     @@ pools
         /\ nextPoolId' = nextPoolId + 1
         /\ exchangeRates' = (PoolPair :> DefaultRate) @@ exchangeRates
         /\ YieldOk(call("Ok"))
         /\ UNCHANGED <<admin, userPositions, tvl, deposited>>

\* The pool record deposit_to_pool writes back
PoolAfterDeposit(pool, user, amount) ==
    [pool EXCEPT
        !.total_deposited = @ + amount,
        !.participants = IF Contains(@, user) THEN @ ELSE Append(@, user)]

\* A deposit that extends the user's position in the pool when there is one
PositionsAfterDepositExtends(ps, user, pool_id, amount, auto_compound) ==
    IF \E i \in 1 .. Len(ps) : ps[i].pool_id = pool_id
    THEN LET i == CHOOSE j \in 1 .. Len(ps) : ps[j].pool_id = pool_id
         IN [ps EXCEPT ![i].principal = @ + amount]
    ELSE Append(ps, NewPosition(user, pool_id, amount, auto_compound))

\* The user's position list deposit_to_pool writes back
PositionsAfterDeposit(ps, user, pool_id, amount, auto_compound) ==
    Append(ps, NewPosition(user, pool_id, amount, auto_compound))

\* Bounds tests that reject an amount equal to a bound
DepositCheckExclusive(pool, amount) ==
    IF amount <= pool.min_deposit THEN "MinDepositNotMet"
    ELSE IF amount >= pool.max_deposit THEN "MaxDepositExceeded"
    ELSE "Ok"

\* if amount < pool.min_deposit { Err } if amount > pool.max_deposit { Err }
DepositCheck(pool, amount) ==
    IF amount < pool.min_deposit THEN "MinDepositNotMet"
    ELSE IF amount > pool.max_deposit THEN "MaxDepositExceeded"
    ELSE "Ok"

DepositToPool(user, pool_id, amount, auto_compound) ==
    LET call(res) == Call("deposit_to_pool", user, pool_id, amount,
                          auto_compound, res)
    IN
    IF pool_id \notin DOMAIN pools THEN YieldFail(call("PoolNotFound"))
    ELSE IF ~pools[pool_id].is_active THEN YieldFail(call("PoolInactive"))
    ELSE IF DepositCheck(pools[pool_id], amount) # "Ok"
    THEN YieldFail(call(DepositCheck(pools[pool_id], amount)))
    ELSE /\ userPositions' =
                [userPositions EXCEPT ![user] =
                    PositionsAfterDeposit(@, user, pool_id, amount, auto_compound)]
         /\ pools' = [pools EXCEPT ![pool_id] = PoolAfterDeposit(@, user, amount)]
         /\ tvl' = tvl + amount
         /\ deposited' = [deposited EXCEPT ![<<user, pool_id>>] =
                              <<@[1] + 1, @[2] + amount>>]
         /\ YieldOk(call("Ok"))
         /\ UNCHANGED <<admin, nextPoolId, exchangeRates>>

\* Tests of distribute_yield that look for the pool first
DistributeCheckPoolFirst(caller, pool_id) ==
    IF pool_id \notin DOMAIN pools THEN "PoolNotFound"
    ELSE IF ~IsStoredAdmin(caller) THEN "NotAuthorized"
    ELSE "Ok"

\* The tests of distribute_yield before the loop, in the order of the code
DistributeCheck(caller, pool_id) ==
    IF ~IsStoredAdmin(caller) THEN "NotAuthorized"
    ELSE IF pool_id \notin DOMAIN pools THEN "PoolNotFound"
    ELSE "Ok"

DistributeYield(caller, pool_id, total_yield) ==
    LET call(res) == Call("distribute_yield", caller, pool_id, total_yield,
                          FALSE, res)
    IN
    IF DistributeCheck(caller, pool_id) # "Ok"
    THEN YieldFail(call(DistributeCheck(caller, pool_id)))
    ELSE LET pool == pools[pool_id]
             r == DistributeLoop(pool.participants, 1, userPositions, pool_id,
                                 total_yield, pool.total_deposited)
         IN IF r.trapped THEN YieldFail(call("Trap"))
            ELSE /\ userPositions' = r.userPositions
                 /\ pools' = [pools EXCEPT ![pool_id] =
                        [pool EXCEPT
                            !.total_deposited = r.total_deposited,
                            !.total_yield_earned = @ + total_yield]]
                 /\ YieldOk(call("Ok"))
                 /\ UNCHANGED <<admin, nextPoolId, tvl, exchangeRates, deposited>>

\* update_exchange_rate(admin, currency_pair, new_rate)
UpdateExchangeRate(caller, currency_pair, new_rate) ==
    LET call(res) == [op |-> "update_exchange_rate", who |-> caller,
                      currency_pair |-> currency_pair, amount |-> new_rate,
                      result |-> res]
    IN
    IF ~IsStoredAdmin(caller) THEN YieldFail(call("NotAuthorized"))
    ELSE /\ exchangeRates' = (currency_pair :> new_rate) @@ exchangeRates
         /\ YieldOk(call("Ok"))
         /\ UNCHANGED <<admin, nextPoolId, pools, userPositions, tvl, deposited>>

\* initialize(admin), signed by the address it names.  Nothing tells a first
\* call from a later one.
Initialize(new_admin) ==
    /\ admin' = new_admin
    /\ nextPoolId' = 1
    /\ tvl' = 0
    /\ YieldOk([op |-> "initialize", who |-> new_admin, result |-> "Ok"])
    /\ UNCHANGED <<pools, userPositions, exchangeRates, deposited>>


-----------------------------------------------------------------------------
(* cross-border-yield/lib.rs : the contract after initialize(admin)        *)

YieldInit ==
    /\ admin = Admin
    /\ nextPoolId = 1
    /\ pools = << >>
    /\ userPositions = [u \in Users |-> << >>]
    /\ tvl = 0
    /\ exchangeRates = << >>
    /\ deposited = [k \in Users \X PoolIds |-> <<0, 0>>]

\* The contract as deployed, before initialize: DataKey::Admin is not stored,
\* and NextPoolId and TotalValueLocked read as their defaults
\* (unwrap_or(1), unwrap_or(0)).
YieldUninitialized ==
    /\ admin = NoAdmin
    /\ nextPoolId = 1
    /\ pools = << >>
    /\ userPositions = [u \in Users |-> << >>]
    /\ tvl = 0
    /\ exchangeRates = << >>
    /\ deposited = [k \in Users \X PoolIds |-> <<0, 0>>]

-----------------------------------------------------------------------------
(* cross-border-yield/lib.rs : the calls of a run                          *)

WithinBounds(p, a) == pools[p].min_deposit <= a /\ a <= pools[p].max_deposit

\* Calls on stored pools take every input (a deposit the bounds reject comes
\* from one user, with one flag: the failing paths read neither); a call that
\* names a pool that is not stored, or that a non-administrator makes, takes
\* one input of each kind.
Next ==
    \/ \E b \in PoolBounds : CreateYieldPool(Admin, b[1], b[2])
    \/ CreateYieldPool(NotAdmin, 1, 2)
    \/ \E u \in Users, p \in DOMAIN pools, a \in DepositAmounts, ac \in BOOLEAN :
          /\ WithinBounds(p, a) \/ (u = "u1" /\ ~ac)
          /\ DepositToPool(u, p, a, ac)
    \/ DepositToPool("u1", nextPoolId, 1, FALSE)
    \/ \E p \in DOMAIN pools, y \in YieldAmounts : DistributeYield(Admin, p, y)
    \/ \E p \in {1, nextPoolId} : DistributeYield(NotAdmin, p, 2)
    \/ DistributeYield(Admin, nextPoolId, 2)
    \/ \E r \in RateInputs : UpdateExchangeRate(Admin, PoolPair, r)
    \/ UpdateExchangeRate(NotAdmin, PoolPair, 5)

\* The calls of a run that starts at the deployed contract
LifecycleNext ==
    \/ \E a \in {Admin, NotAdmin} : Initialize(a)
    \/ Next

-----------------------------------------------------------------------------
(* savings-challenge/lib.rs : records                                      *)

WeekSeconds == 7 * 24 * 60 * 60
StreakWindow == 8 * 24 * 60 * 60
MaxDurationWeeks == 104
MinNameLen == 3

\* A challenge whose deadline counts the weeks from time 0, not from now
NewChallengeDeadlineFromZero(challenge_id, creator, goal_amount, weekly_amount, participants, duration_weeks, current_time) ==
    [id |-> challenge_id,
     creator |-> creator,
     goal_amount |-> goal_amount,
     weekly_amount |-> weekly_amount,
     current_amount |-> 0,
     participants |-> participants,
     created_at |-> current_time,
     deadline |-> duration_weeks * 7 * 24 * 60 * 60,
     is_active |-> TRUE]

\* SavingsChallenge, as create_challenge builds it (name, description and the
\* two policy flags are stored and read by no operation)
NewChallenge(challenge_id, creator, goal_amount, weekly_amount, participants, duration_weeks, current_time) ==
    [id |-> challenge_id,
     creator |-> creator,
     goal_amount |-> goal_amount,
     weekly_amount |-> weekly_amount,
     current_amount |-> 0,
     participants |-> participants,
     created_at |-> current_time,
     deadline |-> current_time + duration_weeks * 7 * 24 * 60 * 60,
     is_active |-> TRUE]

ZeroStats ==
    [total_contributed |-> 0, contribution_count |-> 0,
     last_contribution |-> 0, current_streak |-> 0]

\* A week number that counts completed weeks
WeekNumberOfCompletedWeeks(challenge, current_time) ==
    (current_time - challenge.created_at) \div WeekSeconds

\* let weeks_elapsed = (current_time - challenge.created_at) / (7 * 24 * 60 * 60);
\* let week_number = weeks_elapsed as u32 + 1;
WeekNumber(challenge, current_time) ==
    ((current_time - challenge.created_at) \div WeekSeconds) + 1

NewContribution(challenge, contributor, amount, current_time) ==
    [contributor |-> contributor,
     amount |-> amount,
     timestamp |-> current_time,
     week_number |-> WeekNumber(challenge, current_time)]

\* A challenge total that stops at the goal
ChallengeAfterContributionCapped(challenge, amount) ==
    [challenge EXCEPT !.current_amount =
        IF @ + amount > challenge.goal_amount THEN challenge.goal_amount
        ELSE @ + amount]

\* A contribution that closes the challenge when it reaches the goal
ChallengeAfterContributionClosesAtGoal(challenge, amount) ==
    [challenge EXCEPT
        !.current_amount = @ + amount,
        !.is_active = challenge.current_amount + amount < challenge.goal_amount]

\* challenge.current_amount += amount;
ChallengeAfterContribution(challenge, amount) ==
    [challenge EXCEPT !.current_amount = @ + amount]

\* Participant stats that record the time of the first contribution only
StatsAfterContributionKeepsFirstTime(stats, amount, current_time) ==
    [stats EXCEPT
        !.total_contributed = @ + amount,
        !.contribution_count = @ + 1,
        !.last_contribution = IF @ = 0 THEN current_time ELSE @,
        !.current_streak = @ + 1]

\* "Update participant stats" and "Update streak", in the order of the code:
\* last_contribution is overwritten before the streak test reads it.
StatsAfterContribution(stats, amount, current_time) ==
    LET s1 == [stats EXCEPT
                  !.total_contributed = @ + amount,
                  !.contribution_count = @ + 1,
                  !.last_contribution = current_time]
    IN IF s1.last_contribution > 0
          /\ (current_time - s1.last_contribution) <= StreakWindow
       THEN [s1 EXCEPT !.current_streak = @ + 1]
       ELSE IF s1.contribution_count = 1
       THEN [s1 EXCEPT !.current_streak = 1]
       ELSE [s1 EXCEPT !.current_streak = 1]

\* storage get(...).unwrap_or(ParticipantStats { 0, 0, 0, 0 })
StatsOf(challenge_id, user) ==
    IF <<challenge_id, user>> \in DOMAIN participantStats
    THEN participantStats[<<challenge_id, user>>]
    ELSE ZeroStats

ChallengeCall(op, who, challenge_id, amount, flag, result) ==
    [op |-> op, who |-> who, challenge_id |-> challenge_id, amount |-> amount,
     flag |-> flag, result |-> result]

-----------------------------------------------------------------------------
(* savings-challenge/lib.rs : operations                                   *)

ChallengeFail(call) ==
    /\ calls < MaxCalls
    /\ lastCall' = call
    /\ UNCHANGED <<challengeVars, calls, now, notChallengeVars>>

ChallengeOk(call) ==
    /\ calls < MaxCalls
    /\ calls' = calls + 1
    /\ lastCall' = call
    /\ UNCHANGED <<now, notChallengeVars>>

CreateChallenge(creator, name_len, goal_amount, weekly_amount, participants, duration_weeks) ==
    LET call(res) == ChallengeCall("create_challenge", creator, nextChallengeId,
                                   goal_amount, duration_weeks, res)
                     @@ [name_len |-> name_len, weekly_amount |-> weekly_amount,
                         participants |-> participants]
    IN
    IF goal_amount <= 0 \/ weekly_amount <= 0
    THEN ChallengeFail(call("InvalidParameters"))
    ELSE IF duration_weeks = 0 \/ duration_weeks > MaxDurationWeeks
    THEN ChallengeFail(call("InvalidParameters"))
    ELSE IF participants = << >>
    THEN ChallengeFail(call("InvalidParameters"))
    ELSE IF name_len < MinNameLen
    THEN ChallengeFail(call("InvalidParameters"))
    ELSE /\ challenges' =
                (nextChallengeId :>
                    NewChallenge(nextChallengeId, creator, goal_amount,
                                 weekly_amount, participants, duration_weeks, now))
                @@ challenges
         /\ contributions' = (nextChallengeId :> << >>) @@ contributions
         /\ participantStats' =
                [k \in {<<nextChallengeId, participants[i]>> :
                            i \in 1 .. Len(participants)} |-> ZeroStats]
                @@ participantStats
         /\ nextChallengeId' = nextChallengeId + 1
         /\ ChallengeOk(call("Ok"))
         /\ UNCHANGED <<challengeAdmin, finalized>>

\* A deadline test that closes the challenge at the deadline itself
ExpiredAtDeadline(challenge, current_time) == current_time >= challenge.deadline

\* if current_time > challenge.deadline { return Err(ChallengeExpired) }
Expired(challenge, current_time) == current_time > challenge.deadline

Contribute(challenge_id, contributor, amount) ==
    LET call(res) == ChallengeCall("contribute", contributor, challenge_id,
                                   amount, FALSE, res)
    IN
    IF amount <= 0 THEN ChallengeFail(call("InsufficientAmount"))
    ELSE IF challenge_id \notin DOMAIN challenges
    THEN ChallengeFail(call("ChallengeNotFound"))
    ELSE IF ~challenges[challenge_id].is_active
    THEN ChallengeFail(call("ChallengeInactive"))
    ELSE IF Expired(challenges[challenge_id], now)
    THEN ChallengeFail(call("ChallengeExpired"))
    ELSE IF ~Contains(challenges[challenge_id].participants, contributor)
    THEN ChallengeFail(call("NotParticipant"))
    ELSE LET challenge == challenges[challenge_id]
             list == IF challenge_id \in DOMAIN contributions
                     THEN contributions[challenge_id] ELSE << >>
         IN /\ contributions' =
                   (challenge_id :>
                       Append(list, NewContribution(challenge, contributor,
                                                    amount, now)))
                   @@ contributions
            /\ challenges' = [challenges EXCEPT ![challenge_id] =
                                 ChallengeAfterContribution(@, amount)]
            /\ participantStats' =
                   (<<challenge_id, contributor>> :>
                       StatsAfterContribution(StatsOf(challenge_id, contributor),
                                              amount, now))
                   @@ participantStats
            /\ ChallengeOk(call("Ok"))
            /\ UNCHANGED <<challengeAdmin, nextChallengeId, finalized>>

\* An authorization that lets the administrator finalize as well
MayFinalizeOrAdmin(challenge, finalizer) ==
    \/ challenge.creator = finalizer
    \/ Contains(challenge.participants, finalizer)
    \/ finalizer = challengeAdmin

\* The negation of
\* challenge.creator != finalizer && !challenge.participants.contains(&finalizer)
MayFinalize(challenge, finalizer) ==
    challenge.creator = finalizer \/ Contains(challenge.participants, finalizer)

\* A test that waits for the deadline whatever the amount
CanFinalizeAfterDeadlineOnly(challenge, current_time) ==
    current_time > challenge.deadline

\* goal_reached || time_expired
CanFinalize(challenge, current_time) ==
    LET goal_reached == challenge.current_amount >= challenge.goal_amount
        time_expired == current_time > challenge.deadline
    IN goal_reached \/ time_expired

FinalizeChallenge(challenge_id, finalizer) ==
    LET call(res) == ChallengeCall("finalize_challenge", finalizer, challenge_id,
                                   0, FALSE, res)
    IN
    IF challenge_id \notin DOMAIN challenges
    THEN ChallengeFail(call("ChallengeNotFound"))
    ELSE LET challenge == challenges[challenge_id]
         IN IF ~MayFinalize(challenge, finalizer)
            THEN ChallengeFail(call("NotAuthorized"))
            ELSE IF ~challenge.is_active
            THEN ChallengeFail(call("AlreadyFinalized"))
            ELSE IF ~CanFinalize(challenge, now)
            THEN ChallengeFail(call("InvalidParameters"))
            ELSE /\ challenges' = [challenges EXCEPT
                                      ![challenge_id].is_active = FALSE]
                 /\ finalized' = finalized \cup {challenge_id}
                 /\ ChallengeOk(call("Ok"))
                 /\ UNCHANGED <<challengeAdmin, nextChallengeId, contributions,
                                participantStats>>

SetChallengeActive(challenge_id, active, caller) ==
    LET call(res) == ChallengeCall("set_challenge_active", caller, challenge_id,
                                   0, active, res)
    IN
    IF caller # challengeAdmin THEN ChallengeFail(call("NotAuthorized"))
    ELSE IF challenge_id \notin DOMAIN challenges
    THEN ChallengeFail(call("ChallengeNotFound"))
    ELSE /\ challenges' = [challenges EXCEPT ![challenge_id].is_active = active]
         /\ ChallengeOk(call("Ok"))
         /\ UNCHANGED <<challengeAdmin, nextChallengeId, contributions,
                        participantStats, finalized>>

\* The ledger closes: the timestamp moves on by one of TimeSteps
Tick(d) ==
    /\ calls < MaxCalls
    /\ calls' = calls + 1
    /\ now' = now + d
    /\ lastCall' = [op |-> "ledger_close", who |-> "ledger", result |-> "Ok"]
    /\ UNCHANGED <<yieldVars, challengeVars, milestoneVars, rewardVars, vaultVars>>

-----------------------------------------------------------------------------
(* savings-challenge/lib.rs : the calls of a run                           *)

TimeSteps == {7 * 24 * 60 * 60, 9 * 24 * 60 * 60}
Creator == "u2"
ParticipantLists == {<<"u1">>, <<"u1", "u2">>}
GoalAmounts == {2}
DurationWeeks == {2, 104}
ContributionAmounts == {1, 2}

\* create_challenge arguments that break one requirement each:
\* <<name_len, goal_amount, weekly_amount, participants, duration_weeks>>
InvalidChallenges ==
    {<<3, 0, 1, <<"u1">>, 2>>, <<3, 2, 0, <<"u1">>, 2>>, <<3, 2, 1, <<"u1">>, 0>>,
     <<3, 2, 1, <<"u1">>, 105>>, <<3, 2, 1, << >>, 2>>, <<2, 2, 1, <<"u1">>, 2>>}

ChallengeNext ==
    \/ \E ps \in ParticipantLists, g \in GoalAmounts, d \in DurationWeeks :
          /\ d = 104 => ps = <<"u1">>
          /\ CreateChallenge(Creator, 3, g, 1, ps, d)
    \/ \E c \in InvalidChallenges : CreateChallenge(Creator, c[1], c[2], c[3], c[4], c[5])
    \/ \E id \in DOMAIN challenges, u \in Users \cup {Admin}, a \in ContributionAmounts :
          /\ u = Admin => a = 1
          /\ Contribute(id, u, a)
    \/ \E id \in DOMAIN challenges : Contribute(id, "u1", 0)
    \/ Contribute(nextChallengeId, "u1", 1)
    \/ \E id \in DOMAIN challenges \cup {nextChallengeId}, f \in Users \cup {Admin} :
          /\ id = nextChallengeId => f = "u1"
          /\ FinalizeChallenge(id, f)
    \/ \E id \in DOMAIN challenges, active \in BOOLEAN :
          SetChallengeActive(id, active, Admin)
    \/ SetChallengeActive(1, TRUE, "u1")
    \/ SetChallengeActive(nextChallengeId, TRUE, Admin)
    \/ \E d \in TimeSteps : Tick(d)

\* initialize(admin), signed by the address it names.  Nothing tells a first
\* call from a later one.
ChallengeInitialize(new_admin) ==
    /\ challengeAdmin' = new_admin
    /\ nextChallengeId' = 1
    /\ ChallengeOk([op |-> "initialize", who |-> new_admin, result |-> "Ok"])
    /\ UNCHANGED <<challenges, contributions, participantStats, finalized>>

\* The calls of a run in which initialize is a call like the others
ChallengeLifecycleNext ==
    \/ \E a \in {Admin, NotAdmin} : ChallengeInitialize(a)
    \/ ChallengeNext

-----------------------------------------------------------------------------
(* savings_challenge.rs : records                                          *)

MaxMilestoneCalls == 5   \* successful calls and clock steps in one run

Milestone(description, target_amount, reward_bonus) ==
    [description |-> description,
     target_amount |-> target_amount,
     reached |-> FALSE,
     reached_at |-> 0,
     reward_bonus |-> reward_bonus]

\* "Create default group milestones"
DefaultMilestones(target_amount) ==
    << Milestone("25% Complete", TruncDiv(target_amount, 4), 50),
       Milestone("50% Complete", TruncDiv(target_amount, 2), 100),
       Milestone("75% Complete", TruncDiv(target_amount * 3, 4), 150) >>

\* Challenge, as create_challenge builds it (vault, token, type and social
\* features are stored and only the vault and token addresses are read, by
\* the token transfers)
NewMsChallenge(id, creator, target_amount, duration_days, reward_percentage, min_weekly_deposit, current_time) ==
    [id |-> id,
     creator |-> creator,
     target_amount |-> target_amount,
     duration_days |-> duration_days,
     start_time |-> current_time,
     reward_percentage |-> reward_percentage,
     participants |-> << >>,
     completed_users |-> << >>,
     active |-> TRUE,
     min_weekly_deposit |-> min_weekly_deposit,
     group_target |-> target_amount]

NewUserProgress(current_time) ==
    [current_amount |-> 0,
     last_deposit_time |-> current_time,
     streak_weeks |-> 0,
     deposits_history |-> << >>,
     completed |-> FALSE]

MsCall(op, who, challenge_id, amount, result) ==
    [op |-> op, who |-> who, challenge_id |-> challenge_id, amount |-> amount,
     result |-> result]

-----------------------------------------------------------------------------
(* savings_challenge.rs : milestone evaluation and streaks                 *)

\* A milestone test that evaluates every milestone again
MilestoneAfterCheckReevaluates(milestone, amount, current_time) ==
    IF amount >= milestone.target_amount
    THEN [milestone EXCEPT !.reached = TRUE, !.reached_at = current_time]
    ELSE [milestone EXCEPT !.reached = FALSE]

\* A milestone test that passes only above the target
MilestoneAfterCheckAboveTarget(milestone, amount, current_time) ==
    IF ~milestone.reached /\ amount > milestone.target_amount
    THEN [milestone EXCEPT !.reached = TRUE, !.reached_at = current_time]
    ELSE milestone

\* if !milestone.reached && current_amount >= milestone.target_amount { ... }
MilestoneAfterCheck(milestone, amount, current_time) ==
    IF ~milestone.reached /\ amount >= milestone.target_amount
    THEN [milestone EXCEPT !.reached = TRUE, !.reached_at = current_time]
    ELSE milestone

\* for i in 0..milestones.len() { ... milestones.set(i, milestone) }
CheckMilestones(milestones, amount, current_time) ==
    [i \in 1 .. Len(milestones) |->
        MilestoneAfterCheck(milestones[i], amount, current_time)]

RECURSIVE TotalSaved(_, _, _)
\* "Calculate total amount saved by all participants": participants k.. of
\* the list, read from the progress records up (absent: current_amount 0)
TotalSaved(participants, k, up) ==
    IF k > Len(participants) THEN 0
    ELSE (IF participants[k] \in DOMAIN up THEN up[participants[k]].current_amount
          ELSE 0)
         + TotalSaved(participants, k + 1, up)

\* The streak update of deposit
ProgressAfterStreak(progress, challenge, current_time) ==
    LET weeks_elapsed == (current_time - challenge.start_time) \div WeekSeconds
        last_deposit_week ==
            (progress.last_deposit_time - challenge.start_time) \div WeekSeconds
    IN IF weeks_elapsed > last_deposit_week /\ weeks_elapsed <= last_deposit_week + 1
       THEN [progress EXCEPT !.streak_weeks = @ + 1]
       ELSE IF weeks_elapsed > last_deposit_week + 1
       THEN [progress EXCEPT !.streak_weeks = 1]
       ELSE progress

\* "Add to deposit history" and the two assignments after it
ProgressAfterDeposit(progress, challenge, amount, current_time) ==
    [ProgressAfterStreak(progress, challenge, current_time) EXCEPT
        !.deposits_history =
            Append(@, [amount |-> amount, timestamp |-> current_time,
                       week_number |->
                           ((current_time - challenge.start_time) \div WeekSeconds) + 1]),
        !.current_amount = @ + amount,
        !.last_deposit_time = current_time]

\* The progress records of one challenge, by user
ProgressOf(up, challenge_id) ==
    [u \in {k[2] : k \in {x \in DOMAIN up : x[1] = challenge_id}} |->
        up[<<challenge_id, u>>]]

RECURSIVE MilestoneBonus(_)
\* for milestone in user_milestones.iter() { if milestone.reached { += bonus } }
MilestoneBonus(milestones) ==
    IF milestones = << >> THEN 0
    ELSE (IF Head(milestones).reached THEN Head(milestones).reward_bonus ELSE 0)
         + MilestoneBonus(Tail(milestones))

\* "Calculate final reward"
RewardAmount(challenge, progress, milestones) ==
    TruncDiv(challenge.target_amount
               * (challenge.reward_percentage + MilestoneBonus(milestones)
                    + (progress.streak_weeks \div 4) * 50),
             10000)

-----------------------------------------------------------------------------
(* savings_challenge.rs : operations.  A panic! or a failed expect traps.  *)

MsFail(call) ==
    /\ calls < MaxMilestoneCalls
    /\ lastCall' = call
    /\ UNCHANGED <<milestoneVars, calls, now, notMilestoneVars>>

MsOk(call) ==
    /\ calls < MaxMilestoneCalls
    /\ calls' = calls + 1
    /\ lastCall' = call
    /\ UNCHANGED <<now, notMilestoneVars>>

MsCreateChallenge(creator, target_amount, duration_days, reward_percentage, min_weekly_deposit) ==
    LET call(res) == MsCall("create_challenge", creator, totalChallenges,
                            target_amount, res)
    IN
    IF target_amount <= 0 \/ duration_days = 0 \/ reward_percentage > 10000
       \/ min_weekly_deposit < 0
    THEN MsFail(call("Trap: Invalid challenge parameters"))
    ELSE /\ msChallenges' =
                (totalChallenges :>
                    NewMsChallenge(totalChallenges, creator, target_amount,
                                   duration_days, reward_percentage,
                                   min_weekly_deposit, now))
                @@ msChallenges
         /\ totalChallenges' = totalChallenges + 1
         /\ groupMilestones' =
                (totalChallenges :> DefaultMilestones(target_amount))
                @@ groupMilestones
         /\ MsOk(call("Ok"))
         /\ UNCHANGED <<userProgress, userMilestones>>

JoinChallenge(user, challenge_id) ==
    LET call(res) == MsCall("join_challenge", user, challenge_id, 0, res)
    IN
    IF challenge_id \notin DOMAIN msChallenges
    THEN MsFail(call("Trap: Challenge not found"))
    ELSE IF ~msChallenges[challenge_id].active
    THEN MsFail(call("Trap: Challenge is not active"))
    ELSE IF Contains(msChallenges[challenge_id].participants, user)
    THEN MsFail(call("Trap: User already joined this challenge"))
    ELSE IF challenge_id \notin DOMAIN groupMilestones
    THEN MsFail(call("Trap: Group milestones not found"))
    ELSE /\ msChallenges' = [msChallenges EXCEPT ![challenge_id] =
                [@ EXCEPT !.participants = Append(@, user),
                          !.group_target = @ + msChallenges[challenge_id].target_amount]]
         /\ userProgress' =
                (<<challenge_id, user>> :> NewUserProgress(now)) @@ userProgress
         /\ userMilestones' =
                (<<challenge_id, user>> :> groupMilestones[challenge_id])
                @@ userMilestones
         /\ MsOk(call("Ok"))
         /\ UNCHANGED <<totalChallenges, groupMilestones>>

\* funded: whether the vault token's transfer from the user succeeds
Deposit(user, challenge_id, amount, funded) ==
    LET call(res) == MsCall("deposit", user, challenge_id, amount, res)
    IN
    IF amount <= 0 THEN MsFail(call("Trap: Deposit amount must be positive"))
    ELSE IF challenge_id \notin DOMAIN msChallenges
    THEN MsFail(call("Trap: Challenge not found"))
    ELSE IF ~msChallenges[challenge_id].active
    THEN MsFail(call("Trap: Challenge is not active"))
    ELSE IF ~Contains(msChallenges[challenge_id].participants, user)
    THEN MsFail(call("Trap: User is not a participant in this challenge"))
    ELSE IF <<challenge_id, user>> \notin DOMAIN userProgress
    THEN MsFail(call("Trap: User progress not found"))
    ELSE IF ~funded THEN MsFail(call("Trap: token transfer"))
    ELSE IF <<challenge_id, user>> \notin DOMAIN userMilestones
    THEN MsFail(call("Trap: User milestones not found"))
    ELSE IF challenge_id \notin DOMAIN groupMilestones
    THEN MsFail(call("Trap: Group milestones not found"))
    ELSE LET challenge == msChallenges[challenge_id]
             progress == ProgressAfterDeposit(userProgress[<<challenge_id, user>>],
                                              challenge, amount, now)
             up1 == (<<challenge_id, user>> :> progress) @@ userProgress
             total_saved == TotalSaved(challenge.participants, 1,
                                       ProgressOf(up1, challenge_id))
         IN /\ userProgress' = up1
            /\ userMilestones' = [userMilestones EXCEPT ![<<challenge_id, user>>] =
                   CheckMilestones(@, progress.current_amount, now)]
            /\ groupMilestones' = [groupMilestones EXCEPT ![challenge_id] =
                   CheckMilestones(@, total_saved, now)]
            /\ MsOk(call("Ok"))
            /\ UNCHANGED <<totalChallenges, msChallenges>>

\* funded: whether the reward token's transfer to the user succeeds
CompleteChallenge(user, challenge_id, funded) ==
    LET call(amount, res) == MsCall("complete_challenge", user, challenge_id,
                                    amount, res)
    IN
    IF challenge_id \notin DOMAIN msChallenges
    THEN MsFail(call(0, "Trap: Challenge not found"))
    ELSE IF ~msChallenges[challenge_id].active
    THEN MsFail(call(0, "Trap: Challenge is not active"))
    ELSE IF <<challenge_id, user>> \notin DOMAIN userProgress
    THEN MsFail(call(0, "Trap: User progress not found"))
    ELSE LET challenge == msChallenges[challenge_id]
             progress == userProgress[<<challenge_id, user>>]
             end_time == challenge.start_time + challenge.duration_days * 24 * 60 * 60
         IN IF progress.completed
            THEN MsFail(call(0, "Trap: User has already completed this challenge"))
            ELSE IF progress.current_amount < challenge.target_amount
            THEN MsFail(call(0, "Trap: Target amount not reached"))
            ELSE IF now < end_time
            THEN MsFail(call(0, "Trap: Challenge duration has not ended yet"))
            ELSE IF <<challenge_id, user>> \notin DOMAIN userMilestones
            THEN MsFail(call(0, "Trap: User milestones not found"))
            ELSE IF ~funded THEN MsFail(call(0, "Trap: token transfer"))
            ELSE /\ msChallenges' = [msChallenges EXCEPT
                        ![challenge_id].completed_users = Append(@, user)]
                 /\ userProgress' = [userProgress EXCEPT
                        ![<<challenge_id, user>>].completed = TRUE]
                 /\ MsOk(call(RewardAmount(challenge, progress,
                                           userMilestones[<<challenge_id, user>>]),
                              "Ok"))
                 /\ UNCHANGED <<totalChallenges, groupMilestones, userMilestones>>

CreateMilestone(creator, challenge_id, description, target_amount, reward_bonus) ==
    LET call(res) == MsCall("create_milestone", creator, challenge_id,
                            target_amount, res)
    IN
    IF challenge_id \notin DOMAIN msChallenges
    THEN MsFail(call("Trap: Challenge not found"))
    ELSE IF msChallenges[challenge_id].creator # creator
    THEN MsFail(call("Trap: Only challenge creator can add milestones"))
    ELSE IF challenge_id \notin DOMAIN groupMilestones
    THEN MsFail(call("Trap: Group milestones not found"))
    ELSE /\ groupMilestones' = [groupMilestones EXCEPT ![challenge_id] =
                Append(@, Milestone(description, target_amount, reward_bonus))]
         /\ MsOk(call("Ok"))
         /\ UNCHANGED <<totalChallenges, msChallenges, userProgress, userMilestones>>

\* The ledger closes, in a run of the milestone contract
MsTick(d) ==
    /\ calls < MaxMilestoneCalls
    /\ calls' = calls + 1
    /\ now' = now + d
    /\ lastCall' = [op |-> "ledger_close", who |-> "ledger", result |-> "Ok"]
    /\ UNCHANGED <<yieldVars, challengeVars, milestoneVars, rewardVars, vaultVars>>

-----------------------------------------------------------------------------
(* savings_challenge.rs : the calls of a run                               *)

MsCreator == "u1"
MsTargets == {4}
MsDepositAmounts == {1, 4}

MilestoneNext ==
    \/ \E t \in MsTargets : MsCreateChallenge(MsCreator, t, 7, 500, 1)
    \/ MsCreateChallenge(MsCreator, 0, 7, 500, 1)
    \/ \E u \in Users, id \in DOMAIN msChallenges \cup {totalChallenges} :
          /\ id = totalChallenges => u = "u1"
          /\ JoinChallenge(u, id)
    \/ \E u \in Users, id \in DOMAIN msChallenges, a \in MsDepositAmounts :
          Deposit(u, id, a, TRUE)
    \/ \E id \in DOMAIN msChallenges : Deposit("u1", id, 1, FALSE)
    \/ \E id \in DOMAIN msChallenges : Deposit("u1", id, 0, TRUE)
    \/ \E u \in Users, id \in DOMAIN msChallenges : CompleteChallenge(u, id, TRUE)
    \/ \E id \in DOMAIN msChallenges : CompleteChallenge("u1", id, FALSE)
    \/ \E c \in Users, id \in DOMAIN msChallenges :
          CreateMilestone(c, id, "custom", 2, 25)
    \/ MsTick(7 * 24 * 60 * 60)

\* initialize(admin): no signature is required and nothing tells a first call
\* from a later one.  The stored Admin is read by no operation.
MsInitialize(new_admin) ==
    /\ totalChallenges' = 0
    /\ MsOk(MsCall("initialize", new_admin, 0, 0, "Ok"))
    /\ UNCHANGED <<msChallenges, userProgress, groupMilestones, userMilestones>>

\* The calls of a run in which initialize is a call like the others
MilestoneLifecycleNext ==
    \/ \E a \in {Admin, NotAdmin} : MsInitialize(a)
    \/ MilestoneNext

MilestoneInit ==
    /\ totalChallenges = 0
    /\ msChallenges = << >>
    /\ userProgress = << >>
    /\ groupMilestones = << >>
    /\ userMilestones = << >>

-----------------------------------------------------------------------------
(* reward-token/lib.rs : records and reward calculation                    *)

MaxTokenCalls == 4   \* successful calls in one run

\* One token.  The source counts in 10^-7 token (one token is 1_0000000);
\* the model counts in 10^-3 token, which keeps every product of an amount
\* and a basis-point factor within TLC's integers.  Every amount the source
\* writes as a literal is a whole number of tokens.
Unit == 1000
BasisPoints == 10000

Min(a, b) == IF a <= b THEN a ELSE b

RewardTypes == {"WeeklyContribution", "MilestoneReached", "ChallengeCompleted",
                "StreakBonus", "ReferralBonus"}

\* "Set default reward configuration"
DefaultConfig ==
    [base_weekly_reward |-> 10 * Unit,
     milestone_multiplier |-> 15000,
     completion_multiplier |-> 20000,
     streak_bonus_per_week |-> 1 * Unit,
     max_streak_bonus |-> 50 * Unit,
     referral_reward |-> 25 * Unit,
     min_contribution_for_reward |-> 10 * Unit]

\* let base_reward = match reward_type { ... }
BaseReward(config, reward_type, streak_weeks) ==
    CASE reward_type = "WeeklyContribution" -> config.base_weekly_reward
      [] reward_type = "MilestoneReached" ->
             TruncDiv(config.base_weekly_reward * config.milestone_multiplier,
                      BasisPoints)
      [] reward_type = "ChallengeCompleted" ->
             TruncDiv(config.base_weekly_reward * config.completion_multiplier,
                      BasisPoints)
      [] reward_type = "StreakBonus" ->
             Min(streak_weeks * config.streak_bonus_per_week,
                 config.max_streak_bonus)
      [] reward_type = "ReferralBonus" -> config.referral_reward

\* Contribution tiers that start above 50 and above 100 tokens
ContributionFactorAboveTiers(contribution_amount) ==
    IF contribution_amount > 100 * Unit THEN 12000
    ELSE IF contribution_amount > 50 * Unit THEN 11000
    ELSE 10000

\* let contribution_factor = if contribution_amount >= 100_0000000 { ... }
ContributionFactor(contribution_amount) ==
    IF contribution_amount >= 100 * Unit THEN 12000
    ELSE IF contribution_amount >= 50 * Unit THEN 11000
    ELSE 10000

\* The value calculate_reward returns for a stored configuration
RewardFor(config, contribution_amount, reward_type, streak_weeks) ==
    IF contribution_amount < config.min_contribution_for_reward
    THEN 0
    ELSE TruncDiv(BaseReward(config, reward_type, streak_weeks)
                      * ContributionFactor(contribution_amount),
                  BasisPoints)

\* A multiplier applied without the division by 10000
FinalAmountUnscaled(amount, multiplier) == amount * multiplier

\* let final_amount = (amount * multiplier as i128) / 10000;
FinalAmount(amount, multiplier) == TruncDiv(amount * multiplier, BasisPoints)

\* A record that keeps the requested amount scaled by nothing: the amount
\* field holds the multiplier
RewardRecordWithMultiplierAsAmount(to, final_amount, reward_type, challenge_id, current_time, multiplier) ==
    [recipient |-> to,
     amount |-> multiplier,
     reward_type |-> reward_type,
     challenge_id |-> challenge_id,
     timestamp |-> current_time,
     multiplier |-> multiplier]

RewardRecord(to, final_amount, reward_type, challenge_id, current_time, multiplier) ==
    [recipient |-> to,
     amount |-> final_amount,
     reward_type |-> reward_type,
     challenge_id |-> challenge_id,
     timestamp |-> current_time,
     multiplier |-> multiplier]

\* storage get(...).unwrap_or(0) and unwrap_or(Vec::new(&env)): a key that
\* was never written reads as 0 or as the empty list, and the model holds
\* that value for it.
BalanceOf(id) == balances[id]
AllowanceOf(from, spender) == allowances[<<from, spender>>]
RewardHistoryOf(user) == rewardHistory[user]
RewardStatsOf(reward_type) == rewardStats[reward_type]

\* minters.first_index_of(&minter), then minters.remove(index)
RECURSIVE RemoveFirst(_, _)
RemoveFirst(list, x) ==
    IF list = << >> THEN << >>
    ELSE IF Head(list) = x THEN Tail(list)
    ELSE <<Head(list)>> \o RemoveFirst(Tail(list), x)

TokenCall(op, who, to, amount, reward_type, multiplier, result) ==
    [op |-> op, who |-> who, to |-> to, amount |-> amount,
     reward_type |-> reward_type, multiplier |-> multiplier, result |-> result]

-----------------------------------------------------------------------------
(* reward-token/lib.rs : operations                                        *)

\* The call failed: nothing is written
TokenFail(call) ==
    /\ calls < MaxTokenCalls
    /\ lastCall' = call
    /\ UNCHANGED <<rewardVars, calls, notRewardVars>>

\* The call succeeded
TokenOk(call) ==
    /\ calls < MaxTokenCalls
    /\ calls' = calls + 1
    /\ lastCall' = call
    /\ UNCHANGED notRewardVars

\* initialize(admin, ...), signed by the address it names.  A call that finds
\* DataKey::Admin stored is refused; the runs start after the first call.
TokenInitialize(new_admin) ==
    LET call(res) == TokenCall("initialize", new_admin, new_admin, 0, "none", 0,
                               res)
    IN
    IF tokenAdmin # NoAdmin THEN TokenFail(call("AlreadyInitialized"))
    ELSE /\ tokenAdmin' = new_admin
         /\ totalSupply' = 0
         /\ minters' = << >>
         /\ rewardConfig' = DefaultConfig
         /\ totalRewards' = 0
         /\ TokenOk(call("Ok"))
         /\ UNCHANGED <<balances, allowances, rewardHistory, rewardStats>>

\* The two balance writes of transfer and transfer_from, in the order of the
\* code: both balances are read first, `from` is written, then `to`.
BalancesAfterTransfer(from, to, amount) ==
    [id \in DOMAIN balances |->
        IF id = to THEN BalanceOf(to) + amount
        ELSE IF id = from THEN BalanceOf(from) - amount
        ELSE balances[id]]

Transfer(from, to, amount) ==
    LET call(res) == TokenCall("transfer", from, to, amount, "none", 0, res)
    IN
    IF amount < 0 THEN TokenFail(call("InvalidAmount"))
    ELSE IF amount = 0
    THEN TokenOk(call("Ok")) /\ UNCHANGED rewardVars
    ELSE IF BalanceOf(from) < amount
    THEN TokenFail(call("InsufficientBalance"))
    ELSE /\ balances' = BalancesAfterTransfer(from, to, amount)
         /\ TokenOk(call("Ok"))
         /\ UNCHANGED <<tokenAdmin, minters, rewardConfig, allowances,
                        totalSupply, rewardHistory, rewardStats, totalRewards>>

Approve(from, spender, amount) ==
    LET call(res) == TokenCall("approve", from, spender, amount, "none", 0, res)
    IN
    IF amount < 0 THEN TokenFail(call("InvalidAmount"))
    ELSE /\ allowances' = [allowances EXCEPT ![<<from, spender>>] = amount]
         /\ TokenOk(call("Ok"))
         /\ UNCHANGED <<tokenAdmin, minters, rewardConfig, balances,
                        totalSupply, rewardHistory, rewardStats, totalRewards>>

TransferFrom(spender, from, to, amount) ==
    LET call(res) == TokenCall("transfer_from", spender, to, amount, "none", 0, res)
                     @@ [from |-> from]
    IN
    IF amount < 0 THEN TokenFail(call("InvalidAmount"))
    ELSE IF amount = 0
    THEN TokenOk(call("Ok")) /\ UNCHANGED rewardVars
    ELSE IF AllowanceOf(from, spender) < amount
    THEN TokenFail(call("InsufficientAllowance"))
    ELSE IF BalanceOf(from) < amount
    THEN TokenFail(call("InsufficientBalance"))
    ELSE /\ balances' = BalancesAfterTransfer(from, to, amount)
         /\ allowances' = [allowances EXCEPT ![<<from, spender>>] = @ - amount]
         /\ TokenOk(call("Ok"))
         /\ UNCHANGED <<tokenAdmin, minters, rewardConfig,
                        totalSupply, rewardHistory, rewardStats, totalRewards>>

\* A minter check that is passed by every address once the list is not empty
IsMinterOfNonEmptyList(minter) == minters # << >>

\* minters.contains(&minter)
IsMinter(minter) == Contains(minters, minter)

\* DataKey::Metadata is stored by initialize and never removed, so the
\* NotInitialized exit of mint_reward is not taken after initialize.
MintReward(minter, to, amount, reward_type, challenge_id, multiplier) ==
    LET call(res) == TokenCall("mint_reward", minter, to, amount, reward_type,
                               multiplier, res)
                     @@ [challenge_id |-> challenge_id]
        final_amount == FinalAmount(amount, multiplier)
    IN
    IF ~IsMinter(minter) THEN TokenFail(call("NotMinter"))
    ELSE IF amount <= 0 THEN TokenFail(call("InvalidAmount"))
    ELSE /\ balances' = [balances EXCEPT ![to] = @ + final_amount]
         /\ totalSupply' = totalSupply + final_amount
         /\ rewardHistory' =
                [rewardHistory EXCEPT ![to] =
                    Append(@, RewardRecord(to, final_amount, reward_type,
                                           challenge_id, now, multiplier))]
         /\ rewardStats' = [rewardStats EXCEPT ![reward_type] = @ + final_amount]
         /\ totalRewards' = totalRewards + final_amount
         /\ TokenOk(call("Ok"))
         /\ UNCHANGED <<tokenAdmin, minters, rewardConfig, allowances>>

\* calculate_reward reads the configuration and writes nothing.  initialize
\* stores DataKey::RewardConfig and nothing removes it, so the
\* RewardConfigNotSet exit is not taken after initialize.
CalculateReward(contribution_amount, reward_type, streak_weeks) ==
    /\ calls < MaxTokenCalls
    /\ lastCall' = [op |-> "calculate_reward", who |-> "anyone",
                    contribution_amount |-> contribution_amount,
                    reward_type |-> reward_type,
                    streak_weeks |-> streak_weeks,
                    result |-> "Ok",
                    value |-> RewardFor(rewardConfig, contribution_amount,
                                        reward_type, streak_weeks)]
    /\ UNCHANGED <<rewardVars, calls, notRewardVars>>

AddMinter(caller, minter) ==
    LET call(res) == TokenCall("add_minter", caller, minter, 0, "none", 0, res)
    IN
    IF caller # tokenAdmin THEN TokenFail(call("NotAuthorized"))
    ELSE /\ minters' = IF Contains(minters, minter) THEN minters
                       ELSE Append(minters, minter)
         /\ TokenOk(call("Ok"))
         /\ UNCHANGED <<tokenAdmin, rewardConfig, balances, allowances,
                        totalSupply, rewardHistory, rewardStats, totalRewards>>

RemoveMinter(caller, minter) ==
    LET call(res) == TokenCall("remove_minter", caller, minter, 0, "none", 0, res)
    IN
    IF caller # tokenAdmin THEN TokenFail(call("NotAuthorized"))
    ELSE /\ minters' = RemoveFirst(minters, minter)
         /\ TokenOk(call("Ok"))
         /\ UNCHANGED <<tokenAdmin, rewardConfig, balances, allowances,
                        totalSupply, rewardHistory, rewardStats, totalRewards>>

UpdateRewardConfig(caller, config) ==
    LET call(res) == TokenCall("update_reward_config", caller, caller, 0, "none", 0, res)
                     @@ [config |-> config]
    IN
    IF caller # tokenAdmin THEN TokenFail(call("NotAuthorized"))
    ELSE /\ rewardConfig' = config
         /\ TokenOk(call("Ok"))
         /\ UNCHANGED <<tokenAdmin, minters, balances, allowances,
                        totalSupply, rewardHistory, rewardStats, totalRewards>>

\* The token after initialize(admin, name, symbol, decimals)
RewardInit ==
    /\ tokenAdmin = Admin
    /\ minters = << >>
    /\ rewardConfig = DefaultConfig
    /\ balances = [id \in Users |-> 0]
    /\ allowances = [k \in Users \X Users |-> 0]
    /\ totalSupply = 0
    /\ rewardHistory = [id \in Users |-> << >>]
    /\ rewardStats = [t \in RewardTypes |-> 0]
    /\ totalRewards = 0

-----------------------------------------------------------------------------
(* reward-token/lib.rs : the calls of a run                                *)

MinterContracts == {"m1", "m2"}
MintAmounts == {3}
MintTypes == {"WeeklyContribution", "StreakBonus"}
MintMultipliers == {10000, 15000}
TransferAmounts == {2}

\* Each minter contract passes the challenge it rewards for
ChallengeOfMinter(minter) == IF minter = "m1" THEN 1 ELSE 2

TokenNext ==
    \/ \E m \in MinterContracts : AddMinter(Admin, m)
    \/ AddMinter(NotAdmin, "u1")
    \/ \E m \in MinterContracts : RemoveMinter(Admin, m)
    \/ RemoveMinter(NotAdmin, "m1")
    \/ \E m \in MinterContracts, to \in Users, a \in MintAmounts, t \in MintTypes, x \in MintMultipliers :
          /\ ~IsMinter(m) => (to = "u1" /\ t = "WeeklyContribution" /\ x = 10000)
          /\ MintReward(m, to, a, t, ChallengeOfMinter(m), x)
    \/ \E m \in MinterContracts \cup {"u1"}, a \in {0, -1} :
          /\ m = "u1" => a = 0
          /\ MintReward(m, "u1", a, "WeeklyContribution", ChallengeOfMinter(m), 10000)
    \/ \E from \in Users, to \in Users, a \in TransferAmounts :
          /\ BalanceOf(from) < a => (to = "u2" /\ a = 2)
          /\ Transfer(from, to, a)
    \/ \E a \in {0, -1} : Transfer("u1", "u2", a)
    \/ \E a \in {1, -1} : Approve("u1", "u2", a)
    \/ \E a \in {1, 2, 0, -1} : TransferFrom("u2", "u1", "u2", a)
    \/ TokenInitialize("u1")

\* Configurations offered to update_reward_config: small amounts whose
\* products are not multiples of 10000, and negative amounts (the fields are
\* i128 and the call validates none of them)
RewardConfigs ==
    { [base_weekly_reward |-> 7, milestone_multiplier |-> 15000,
       completion_multiplier |-> 12345, streak_bonus_per_week |-> 3,
       max_streak_bonus |-> 10, referral_reward |-> 25,
       min_contribution_for_reward |-> 1],
      [base_weekly_reward |-> -7, milestone_multiplier |-> 15000,
       completion_multiplier |-> 20000, streak_bonus_per_week |-> -3,
       max_streak_bonus |-> 10, referral_reward |-> -25,
       min_contribution_for_reward |-> 0] }

ContributionInputs ==
    {-1, 0, 10 * Unit - 1, 10 * Unit, 50 * Unit - 1, 50 * Unit, 60 * Unit,
     100 * Unit - 1, 100 * Unit}
StreakInputs == {0, 3, 4, 60}

RewardCalcNext ==
    \/ \E c \in RewardConfigs \cup {DefaultConfig} : UpdateRewardConfig(Admin, c)
    \/ UpdateRewardConfig(NotAdmin, DefaultConfig)
    \/ \E a \in ContributionInputs, t \in RewardTypes, w \in StreakInputs :
          /\ t # "StreakBonus" => w = 0
          /\ CalculateReward(a, t, w)

-----------------------------------------------------------------------------
(* timelock_vault.rs                                                       *)

MaxVaultCalls == 5   \* successful calls and clock steps in one run

\* "Create deposit record"
NewDeposit(user, amount, lock_days, current_time) ==
    [user |-> user,
     amount |-> amount,
     lock_time |-> current_time + lock_days * 24 * 60 * 60,
     withdrawn |-> FALSE]

\* A lock test that opens the deposit a week early
LockedUntilWeekBefore(deposit, current_time) ==
    current_time + 7 * 24 * 60 * 60 < deposit.lock_time

\* if current_time < deposit.lock_time { panic!("Tokens are still locked") }
Locked(deposit, current_time) == current_time < deposit.lock_time

VaultCall(op, who, user, amount, result) ==
    [op |-> op, who |-> who, user |-> user, amount |-> amount, result |-> result]

\* The call trapped (panic!, expect, failed require_auth or token transfer):
\* nothing is written
VaultFail(call) ==
    /\ calls < MaxVaultCalls
    /\ lastCall' = call
    /\ UNCHANGED <<vaultVars, calls, now, notVaultVars>>

VaultOk(call) ==
    /\ calls < MaxVaultCalls
    /\ calls' = calls + 1
    /\ lastCall' = call
    /\ UNCHANGED <<now, notVaultVars>>

\* deposit(user, amount, lock_days), signed by `signer`.  `funded` tells
\* whether the user's token balance covers the transfer into the vault.
VaultDeposit(signer, user, amount, lock_days, funded) ==
    LET call(res) == VaultCall("deposit", signer, user, amount, res)
                     @@ [lock_days |-> lock_days]
    IN
    IF signer # user THEN VaultFail(call("Trap"))
    ELSE IF amount <= 0 THEN VaultFail(call("Trap"))
    ELSE IF ~funded THEN VaultFail(call("Trap"))
    ELSE /\ vaultHeld' = vaultHeld + amount
         /\ vaultDeposits' =
                (user :> NewDeposit(user, amount, lock_days, now)) @@ vaultDeposits
         /\ totalDeposits' = totalDeposits + amount
         /\ VaultOk(call("Ok"))
         /\ UNCHANGED vaultAdmin

\* "Mark as withdrawn", "Update total deposits", "Transfer tokens back to
\* user": the tail shared by withdraw and emergency_withdraw.  The token
\* transfer traps when the vault holds less than the amount.
PayOut(user, ok, trap) ==
    LET deposit == vaultDeposits[user]
    IN IF vaultHeld < deposit.amount THEN VaultFail(trap)
       ELSE /\ vaultDeposits' = [vaultDeposits EXCEPT ![user].withdrawn = TRUE]
            /\ totalDeposits' = totalDeposits - deposit.amount
            /\ vaultHeld' = vaultHeld - deposit.amount
            /\ VaultOk(ok)
            /\ UNCHANGED vaultAdmin

\* withdraw(user), signed by `signer`
VaultWithdraw(signer, user) ==
    LET call(res) == VaultCall("withdraw", signer, user,
                               IF user \in DOMAIN vaultDeposits
                               THEN vaultDeposits[user].amount ELSE 0, res)
    IN
    IF signer # user THEN VaultFail(call("Trap"))
    ELSE IF user \notin DOMAIN vaultDeposits THEN VaultFail(call("Trap"))
    ELSE IF vaultDeposits[user].withdrawn THEN VaultFail(call("Trap"))
    ELSE IF Locked(vaultDeposits[user], now) THEN VaultFail(call("Trap"))
    ELSE PayOut(user, call("Ok"), call("Trap"))

\* emergency_withdraw(user), signed by `signer`: admin.require_auth() for the
\* stored administrator
EmergencyWithdraw(signer, user) ==
    LET call(res) == VaultCall("emergency_withdraw", signer, user,
                               IF user \in DOMAIN vaultDeposits
                               THEN vaultDeposits[user].amount ELSE 0, res)
    IN
    IF signer # vaultAdmin THEN VaultFail(call("Trap"))
    ELSE IF user \notin DOMAIN vaultDeposits THEN VaultFail(call("Trap"))
    ELSE IF vaultDeposits[user].withdrawn THEN VaultFail(call("Trap"))
    ELSE PayOut(user, call("Ok"), call("Trap"))

\* A can_withdraw that does not look at the withdrawn flag
CanWithdrawIgnoringWithdrawn(user) ==
    IF user \notin DOMAIN vaultDeposits THEN FALSE
    ELSE now >= vaultDeposits[user].lock_time

\* can_withdraw(user): reads the deposit record and the ledger timestamp,
\* writes nothing
CanWithdraw(user) ==
    IF user \notin DOMAIN vaultDeposits THEN FALSE
    ELSE IF vaultDeposits[user].withdrawn THEN FALSE
    ELSE now >= vaultDeposits[user].lock_time

\* The ledger closes
VaultTick(d) ==
    /\ calls < MaxVaultCalls
    /\ calls' = calls + 1
    /\ now' = now + d
    /\ lastCall' = [op |-> "ledger_close", who |-> "ledger", result |-> "Ok"]
    /\ UNCHANGED <<vaultVars, notVaultVars>>

\* The vault after initialize(admin, token_address)
VaultInit ==
    /\ vaultAdmin = Admin
    /\ vaultDeposits = << >>
    /\ totalDeposits = 0
    /\ vaultHeld = 0

LockDays == {0, 14}
VaultAmounts == {1, 2}

VaultNext ==
    \/ \E u \in Users, a \in VaultAmounts, d \in LockDays :
          VaultDeposit(u, u, a, d, TRUE)
    \/ \E a \in {0, 1} : VaultDeposit("u1", "u1", a, 0, a = 0)
    \/ VaultDeposit("u2", "u1", 1, 0, TRUE)
    \/ \E u \in Users : VaultWithdraw(u, u)
    \/ \E s \in {"u2", Admin} : VaultWithdraw(s, "u1")
    \/ \E u \in Users : EmergencyWithdraw(Admin, u)
    \/ \E s \in Users : EmergencyWithdraw(s, "u1")
    \/ VaultTick(7 * 24 * 60 * 60)

-----------------------------------------------------------------------------
(* The contracts after initialize(admin), and the specifications           *)

ChallengeInit ==
    /\ challengeAdmin = Admin
    /\ nextChallengeId = 1
    /\ challenges = << >>
    /\ contributions = << >>
    /\ participantStats = << >>
    /\ finalized = {}

\* The ledger timestamp at the start of a run: 0 (the default test ledger)
\* or later
StartTimes == {0, 24 * 60 * 60}

Init ==
    /\ YieldInit
    /\ ChallengeInit
    /\ MilestoneInit
    /\ RewardInit
    /\ VaultInit
    /\ calls = 0
    /\ now \in StartTimes
    /\ lastCall = [op |-> "initialize", who |-> Admin, result |-> "Ok"]

\* cross-border-yield/lib.rs: the timestamps it stores in a position are read
\* by none of its operations, so its runs start at time 0
InitAtZero == Init /\ now = 0

Spec == InitAtZero /\ [][Next]_vars

\* cross-border-yield/lib.rs from its deployment: initialize is a call like
\* the others
InitUninitialized ==
    /\ YieldUninitialized
    /\ ChallengeInit
    /\ MilestoneInit
    /\ RewardInit
    /\ VaultInit
    /\ calls = 0
    /\ now = 0
    /\ lastCall = [op |-> "deploy", who |-> "deployer", result |-> "Ok"]

SpecLifecycle == InitUninitialized /\ [][LifecycleNext]_vars

\* savings-challenge/lib.rs
SpecChallenge == Init /\ [][ChallengeNext]_vars

\* savings-challenge/lib.rs, with initialize as a call like the others
SpecChallengeLifecycle == Init /\ [][ChallengeLifecycleNext]_vars

\* savings_challenge.rs
SpecMilestones == Init /\ [][MilestoneNext]_vars

\* savings_challenge.rs in use: the state after create_challenge(u1, 4, 7,
\* 500, ..., 1, ...) -> 0 and join_challenge(u1, 0), both at time 0
InitJoined ==
    /\ YieldInit
    /\ ChallengeInit
    /\ RewardInit
    /\ VaultInit
    /\ totalChallenges = 1
    /\ msChallenges =
           (0 :> [NewMsChallenge(0, MsCreator, 4, 7, 500, 1, 0) EXCEPT
                      !.participants = <<MsCreator>>,
                      !.group_target = 8])
    /\ userProgress = (<<0, MsCreator>> :> NewUserProgress(0))
    /\ groupMilestones = (0 :> DefaultMilestones(4))
    /\ userMilestones = (<<0, MsCreator>> :> DefaultMilestones(4))
    /\ calls = 0
    /\ now = 0
    /\ lastCall = MsCall("join_challenge", MsCreator, 0, 0, "Ok")

\* savings_challenge.rs with initialize as a call like the others, from a
\* challenge that has its first participant
SpecMilestonesLifecycle == InitJoined /\ [][MilestoneLifecycleNext]_vars

\* reward-token/lib.rs: balances, allowances, minters and minting
SpecToken == Init /\ [][TokenNext]_vars

\* reward-token/lib.rs: the reward configuration and calculate_reward
SpecRewardCalc == Init /\ [][RewardCalcNext]_vars

\* timelock_vault.rs
SpecVault == Init /\ [][VaultNext]_vars

-----------------------------------------------------------------------------
(* cross-border-yield/lib.rs : properties                                  *)

\* The stored positions of a pool, as <<user, index>> pairs
PositionKeys(up, pool_id) ==
    {k \in UNION {{<<u, i>> : i \in 1 .. Len(up[u])} : u \in Users} :
        up[k[1]][k[2]].pool_id = pool_id}

PositionAt(up, k) == up[k[1]][k[2]]

\* The last call was a successful distribute_yield
Distributed == lastCall.op = "distribute_yield" /\ lastCall.result = "Ok"

\* C1: for every pool, total_deposited is the sum of principal over all
\* stored positions that reference the pool.
C1_TotalDepositedIsSumOfPrincipal ==
    \A p \in DOMAIN pools :
        pools[p].total_deposited = PoolPrincipal(userPositions, p)

\* A distribution has just credited non-zero shares to a pool that holds a
\* compounding and a non-compounding position.
C1_Witness ==
    /\ Distributed
    /\ \E k1, k2 \in PositionKeys(userPositions, lastCall.pool_id) :
          /\ PositionAt(userPositions, k1).auto_compound
          /\ PositionAt(userPositions, k1).yield_earned > 0
          /\ ~PositionAt(userPositions, k2).auto_compound
          /\ PositionAt(userPositions, k2).yield_earned > 0

\* C6: distribute_yield by the administrator on a stored pool whose
\* total_deposited is 0 fails and leaves the pool and every position
\* unchanged.
C6_ZeroTotalDistributionFails ==
    [][(/\ lastCall'.op = "distribute_yield"
        /\ lastCall'.who = admin
        /\ lastCall'.pool_id \in DOMAIN pools
        /\ pools[lastCall'.pool_id].total_deposited = 0)
       => (/\ lastCall'.result # "Ok"
           /\ pools' = pools
           /\ userPositions' = userPositions)]_vars

RECURSIVE SumCompounded(_, _)
\* Sum of the shares compounded into the positions of ps that reference
\* pool_id: a compounding position's yield_earned
SumCompounded(ps, pool_id) ==
    IF ps = << >> THEN 0
    ELSE (IF Head(ps).pool_id = pool_id /\ Head(ps).auto_compound
          THEN Head(ps).yield_earned ELSE 0)
         + SumCompounded(Tail(ps), pool_id)

\* C7 as stated: a user who deposited into a pool holds exactly one position
\* with that pool_id, whose principal is the sum of the deposited amounts
\* plus the compounded shares.
C7_OnePositionPerPool ==
    \A u \in Users, p \in PoolIds :
        deposited[<<u, p>>][1] >= 1 =>
            /\ CountPositions(userPositions[u], p) = 1
            /\ SumPrincipal(userPositions[u], p)
                 = deposited[<<u, p>>][2] + SumCompounded(userPositions[u], p)

\* C7 as amended: every successful deposit_to_pool stores a position of its
\* own; after k successful deposits by a user into a pool the user holds k
\* positions with that pool_id, and their principals sum to the deposited
\* amounts plus the compounded shares.
C7_OnePositionPerDeposit ==
    \A u \in Users, p \in PoolIds :
        /\ CountPositions(userPositions[u], p) = deposited[<<u, p>>][1]
        /\ SumPrincipal(userPositions[u], p)
             = deposited[<<u, p>>][2] + SumCompounded(userPositions[u], p)

\* A user deposited twice into one pool and a share was compounded there.
C7_Witness ==
    \E u \in Users, p \in PoolIds :
        /\ deposited[<<u, p>>][1] = 2
        /\ SumCompounded(userPositions[u], p) > 0

\* The sum of the shares the step credits to the positions of pool_id
Credited(pool_id) ==
    PoolYieldEarned(userPositions', pool_id) - PoolYieldEarned(userPositions, pool_id)

\* The step is a successful distribute_yield with total_yield >= 0
DistributesNonNegative ==
    /\ lastCall'.op = "distribute_yield"
    /\ lastCall'.result = "Ok"
    /\ lastCall'.amount >= 0

\* C8: a successful distribute_yield with total_yield >= 0 on a pool whose
\* positions all have positive principal raises the yield_earned of the
\* pool's positions by at most total_yield in sum.
C8_NeverAllocatesMoreThanGiven ==
    [][(/\ DistributesNonNegative
        /\ \A k \in PositionKeys(userPositions, lastCall'.pool_id) :
              PositionAt(userPositions, k).principal > 0)
       => Credited(lastCall'.pool_id) <= lastCall'.amount]_vars

\* A distribution of a positive yield has credited a pool with a compounding
\* and a non-compounding position, all of positive principal.
C8_Witness ==
    /\ Distributed
    /\ lastCall.amount > 0
    /\ \A k \in PositionKeys(userPositions, lastCall.pool_id) :
          PositionAt(userPositions, k).principal > 0
    /\ \E k1, k2 \in PositionKeys(userPositions, lastCall.pool_id) :
          /\ PositionAt(userPositions, k1).auto_compound
          /\ ~PositionAt(userPositions, k2).auto_compound
          /\ PositionAt(userPositions, k1).yield_earned > 0

\* C9 as stated: after a successful distribute_yield with total_yield >= 0,
\* total_yield minus the credited shares is at most participant_count - 1.
C9_ShortfallBelowParticipants ==
    [][DistributesNonNegative
       => lastCall'.amount - Credited(lastCall'.pool_id)
            <= Len(pools[lastCall'.pool_id].participants) - 1]_vars

\* C9 as amended: on a pool that holds at least one position and no
\* auto-compounding position, total_yield minus the credited shares is at
\* most (number of positions of the pool) - 1.
C9_ShortfallBelowPositions ==
    [][(/\ DistributesNonNegative
        /\ PositionKeys(userPositions, lastCall'.pool_id) # {}
        /\ \A k \in PositionKeys(userPositions, lastCall'.pool_id) :
              ~PositionAt(userPositions, k).auto_compound)
       => lastCall'.amount - Credited(lastCall'.pool_id)
            <= PoolPositionCount(userPositions, lastCall'.pool_id) - 1]_vars

\* A distribution has left a remainder in a pool of two or more
\* non-compounding positions.
C9_Witness ==
    /\ Distributed
    /\ lastCall.amount > 0
    /\ PoolPositionCount(userPositions, lastCall.pool_id) >= 2
    /\ \A k \in PositionKeys(userPositions, lastCall.pool_id) :
          ~PositionAt(userPositions, k).auto_compound
    /\ pools[lastCall.pool_id].total_yield_earned = lastCall.amount
    /\ PoolYieldEarned(userPositions, lastCall.pool_id) < lastCall.amount

\* Pool pool_id has N >= 1 participants, each holding one non-compounding
\* position of the same positive principal
EqualStakes(ps, up, pool_id) ==
    /\ Len(ps[pool_id].participants) >= 1
    /\ \A u \in Users :
          CountPositions(up[u], pool_id)
            = (IF Contains(ps[pool_id].participants, u) THEN 1 ELSE 0)
    /\ \A k1, k2 \in PositionKeys(up, pool_id) :
          /\ ~PositionAt(up, k1).auto_compound
          /\ PositionAt(up, k1).principal > 0
          /\ PositionAt(up, k1).principal = PositionAt(up, k2).principal

\* C10: with N participants of one equal non-compounding stake each,
\* distribute_yield(total_yield >= 0) credits total_yield - (total_yield mod N)
\* in sum, and the same share to every position.
C10_RoundingLaw ==
    [][(/\ DistributesNonNegative
        /\ EqualStakes(pools, userPositions, lastCall'.pool_id))
       => LET pid == lastCall'.pool_id
              N == Len(pools[pid].participants)
              y == lastCall'.amount
          IN /\ Credited(pid) = y - (y % N)
             /\ \A k1, k2 \in PositionKeys(userPositions, pid) :
                   PositionAt(userPositions', k1).yield_earned
                       - PositionAt(userPositions, k1).yield_earned
                 = PositionAt(userPositions', k2).yield_earned
                       - PositionAt(userPositions, k2).yield_earned]_vars

\* The first distribution of a pool of two equal stakes has left a remainder.
C10_Witness ==
    /\ Distributed
    /\ lastCall.amount = 5
    /\ EqualStakes(pools, userPositions, lastCall.pool_id)
    /\ Len(pools[lastCall.pool_id].participants) = 2
    /\ pools[lastCall.pool_id].total_yield_earned = 5
    /\ PoolYieldEarned(userPositions, lastCall.pool_id) = 4


-----------------------------------------------------------------------------
(* savings-challenge/lib.rs : properties                                   *)

RECURSIVE SumAmounts(_)
\* Sum of amount over a sequence of Contribution records
SumAmounts(list) ==
    IF list = << >> THEN 0 ELSE Head(list).amount + SumAmounts(Tail(list))

ContributionsOf(challenge_id) ==
    IF challenge_id \in DOMAIN contributions
    THEN contributions[challenge_id] ELSE << >>

\* C2: for every challenge, current_amount is the sum of amount over the
\* Contribution records stored for it.
C2_CurrentAmountIsSumOfContributions ==
    \A id \in DOMAIN challenges :
        challenges[id].current_amount = SumAmounts(ContributionsOf(id))

\* A challenge holds contributions of two participants that sum to more
\* than its goal.
C2_Witness ==
    \E id \in DOMAIN challenges :
        /\ Len(ContributionsOf(id)) >= 2
        /\ ContributionsOf(id)[1].contributor # ContributionsOf(id)[2].contributor
        /\ challenges[id].current_amount > challenges[id].goal_amount

\* C3: once finalize_challenge has succeeded for a challenge, is_active stays
\* false, a later finalize_challenge never succeeds (and fails with
\* AlreadyFinalized for the creator and the participants), and no later
\* contribute succeeds or changes current_amount.
C3_FinalizationIsTerminal ==
    [][\A id \in finalized :
          /\ ~challenges'[id].is_active
          /\ challenges'[id].current_amount = challenges[id].current_amount
          /\ (lastCall'.op = "finalize_challenge"
                /\ lastCall'.challenge_id = id)
             => /\ lastCall'.result # "Ok"
                /\ (lastCall'.who = challenges[id].creator
                      \/ Contains(challenges[id].participants, lastCall'.who))
                   => lastCall'.result = "AlreadyFinalized"
          /\ (lastCall'.op = "contribute"
                /\ lastCall'.challenge_id = id)
             => lastCall'.result # "Ok"]_vars

\* C4: a contribution by a participant who has contributed before, made more
\* than 8*86400 seconds after their previous one, leaves current_streak = 1.
C4_StreakResetsAfterGap ==
    [][(/\ lastCall'.op = "contribute"
        /\ lastCall'.result = "Ok"
        /\ StatsOf(lastCall'.challenge_id, lastCall'.who).contribution_count >= 1
        /\ now - StatsOf(lastCall'.challenge_id, lastCall'.who).last_contribution
             > 8 * 86400)
       => participantStats'[<<lastCall'.challenge_id, lastCall'.who>>].current_streak
            = 1]_vars

-----------------------------------------------------------------------------
(* Properties of savings_challenge.rs (SpecMilestones)                     *)

\* The milestones of list ms that are reached keep their place, their flag
\* and their reached_at in list ms2
KeepsReached(ms, ms2) ==
    \A i \in 1 .. Len(ms) :
        ms[i].reached =>
            /\ i <= Len(ms2)
            /\ ms2[i].reached
            /\ ms2[i].reached_at = ms[i].reached_at

\* C5: milestone monotonicity.  Once a personal or a group milestone is
\* reached, every later deposit, join_challenge, create_milestone,
\* complete_challenge (and create_challenge) call leaves its reached flag true
\* and its reached_at value as it was.
C5_MilestoneMonotonicity ==
    [][ /\ \A id \in DOMAIN groupMilestones :
             /\ id \in DOMAIN groupMilestones'
             /\ KeepsReached(groupMilestones[id], groupMilestones'[id])
        /\ \A k \in DOMAIN userMilestones :
             /\ k \in DOMAIN userMilestones'
             /\ KeepsReached(userMilestones[k], userMilestones'[k]) ]_vars

\* A deposit succeeded at a later time than the one at which a personal and a
\* group milestone of its challenge were reached, and met them again
C5_Witness ==
    /\ lastCall.op = "deposit" /\ lastCall.result = "Ok"
    /\ \E i \in 1 .. Len(groupMilestones[lastCall.challenge_id]) :
          LET m == groupMilestones[lastCall.challenge_id][i]
          IN m.reached /\ m.reached_at < now
    /\ \E i \in 1 .. Len(userMilestones[<<lastCall.challenge_id, lastCall.who>>]) :
          LET m == userMilestones[<<lastCall.challenge_id, lastCall.who>>][i]
          IN m.reached /\ m.reached_at < now

-----------------------------------------------------------------------------
(* Properties of cross-border-yield/lib.rs (Spec): shares, bounds, signs   *)

\* The last step was a successful distribute_yield on a pool none of whose
\* positions compounds
DistributesWithoutCompounding ==
    /\ lastCall'.op = "distribute_yield" /\ lastCall'.result = "Ok"
    /\ \A k \in PositionKeys(userPositions, lastCall'.pool_id) :
          ~PositionAt(userPositions, k).auto_compound

\* What a distribution without compounding leaves alone: the list shapes, every
\* principal, the pool total and the positions of the other pools
DistributionKeepsTheRest ==
    /\ \A u \in Users : Len(userPositions'[u]) = Len(userPositions[u])
    /\ \A u \in Users : \A i \in 1 .. Len(userPositions[u]) :
          /\ userPositions'[u][i].principal = userPositions[u][i].principal
          /\ userPositions[u][i].pool_id # lastCall'.pool_id
                => userPositions'[u][i] = userPositions[u][i]
    /\ pools'[lastCall'.pool_id].total_deposited
          = pools[lastCall'.pool_id].total_deposited

ParticipantIndex(parts, u) ==
    IF Contains(parts, u) THEN CHOOSE i \in 1 .. Len(parts) : parts[i] = u ELSE 0

\* Position k1 of the pool is processed before position k2: its holder comes
\* earlier in the participant list, or it comes earlier in the holder's list
ProcessedBefore(parts, k1, k2) ==
    \/ ParticipantIndex(parts, k1[1]) < ParticipantIndex(parts, k2[1])
    \/ k1[1] = k2[1] /\ k1[2] < k2[2]

\* The share the last step credited to position k
ShareCredited(k) ==
    PositionAt(userPositions', k).yield_earned
      - PositionAt(userPositions, k).yield_earned

RECURSIVE SumShares(_)
\* Sum of the credited shares over a set of positions
SumShares(ks) ==
    IF ks = {} THEN 0
    ELSE LET k == CHOOSE x \in ks : TRUE
         IN ShareCredited(k) + SumShares(ks \ {k})

\* The pool total at the moment position k is processed: the total before the
\* call plus the shares of the compounding positions processed before k
TotalWhenProcessed(pool_id, k) ==
    pools[pool_id].total_deposited
      + SumShares({j \in PositionKeys(userPositions, pool_id) :
                      /\ PositionAt(userPositions, j).auto_compound
                      /\ ProcessedBefore(pools[pool_id].participants, j, k)})

\* The last step was a successful distribute_yield
Distributes == lastCall'.op = "distribute_yield" /\ lastCall'.result = "Ok"

\* A compounding position's share is added to its principal, a
\* non-compounding position's principal stays, and the pool total is raised
\* by the compounded shares
CompoundsIntoPrincipalAndTotal ==
    LET pid == lastCall'.pool_id
        keys == PositionKeys(userPositions, pid)
    IN /\ \A k \in keys :
             PositionAt(userPositions', k).principal
               = PositionAt(userPositions, k).principal
                   + (IF PositionAt(userPositions, k).auto_compound
                      THEN ShareCredited(k) ELSE 0)
       /\ pools'[pid].total_deposited
             = pools[pid].total_deposited
                 + SumShares({k \in keys : PositionAt(userPositions, k).auto_compound})

\* One pool of total 2 held by u1 (principal 1, compounding) and u2 (principal
\* 1, not compounding), distributed 5 in the two participant orders
TwoHolders ==
    [u \in Users |-> IF u = "u1" THEN << NewPosition("u1", 1, 1, TRUE) >>
                     ELSE << NewPosition("u2", 1, 1, FALSE) >>]

OrderChangesAShare ==
    DistributeLoop(<<"u1", "u2">>, 1, TwoHolders, 1, 5, 2).userPositions["u2"][1].yield_earned
      # DistributeLoop(<<"u2", "u1">>, 1, TwoHolders, 1, 5, 2).userPositions["u2"][1].yield_earned

DepositsToActivePool ==
    /\ lastCall'.op = "deposit_to_pool"
    /\ lastCall'.pool_id \in DOMAIN pools
    /\ pools[lastCall'.pool_id].is_active

\* The rejected deposit wrote nothing
DepositWroteNothing ==
    pools' = pools /\ userPositions' = userPositions /\ tvl' = tvl

\* C13: deposit_to_pool on a stored active pool fails with
\* MinDepositNotMet when amount < min_deposit and with MaxDepositExceeded when
\* amount > max_deposit, writing nothing; within the bounds it succeeds and
\* raises total_deposited by amount.
C13_DepositBounds ==
    [][DepositsToActivePool
       => LET pool == pools[lastCall'.pool_id]
              amount == lastCall'.amount
          IN /\ amount < pool.min_deposit
                  => lastCall'.result = "MinDepositNotMet" /\ DepositWroteNothing
             /\ amount > pool.max_deposit
                  => lastCall'.result = "MaxDepositExceeded" /\ DepositWroteNothing
             /\ (pool.min_deposit <= amount /\ amount <= pool.max_deposit)
                  => /\ lastCall'.result = "Ok"
                     /\ pools'[lastCall'.pool_id].total_deposited
                          = pool.total_deposited + amount]_vars

\* What deposit_to_pool does on every stored pool, the pools of inconsistent
\* bounds included: the lower bound is tested first, so MaxDepositExceeded is
\* the error only of an amount that is not below min_deposit.
C13_DepositBoundsInOrder ==
    [][DepositsToActivePool
       => LET pool == pools[lastCall'.pool_id]
              amount == lastCall'.amount
          IN /\ amount < pool.min_deposit
                  => lastCall'.result = "MinDepositNotMet" /\ DepositWroteNothing
             /\ (amount >= pool.min_deposit /\ amount > pool.max_deposit)
                  => lastCall'.result = "MaxDepositExceeded" /\ DepositWroteNothing
             /\ (pool.min_deposit <= amount /\ amount <= pool.max_deposit)
                  => /\ lastCall'.result = "Ok"
                     /\ pools'[lastCall'.pool_id].total_deposited
                          = pool.total_deposited + amount]_vars

\* A deposit above max_deposit has been rejected by a pool that had accepted
\* a deposit equal to its max_deposit before.
C13_Witness ==
    /\ lastCall.op = "deposit_to_pool"
    /\ lastCall.result = "MaxDepositExceeded"
    /\ lastCall.pool_id \in DOMAIN pools
    /\ pools[lastCall.pool_id].total_deposited = pools[lastCall.pool_id].max_deposit
    /\ pools[lastCall.pool_id].min_deposit > 0
    /\ tvl = pools[lastCall.pool_id].max_deposit

\* C14: create_yield_pool called by the administrator with min_deposit >
\* max_deposit, or with a min_deposit or max_deposit that is not positive,
\* fails, stores no pool and leaves NextPoolId as it was.  (The call record
\* holds min_deposit in amount and max_deposit in flag.)
C14_InconsistentBoundsRejected ==
    [][(/\ lastCall'.op = "create_yield_pool"
        /\ lastCall'.who = admin
        /\ \/ lastCall'.amount > lastCall'.flag
           \/ lastCall'.amount <= 0
           \/ lastCall'.flag <= 0)
       => (/\ lastCall'.result # "Ok"
           /\ pools' = pools
           /\ nextPoolId' = nextPoolId)]_vars

\* C15: every position's principal and yield_earned, every pool's
\* total_deposited and total_yield_earned, and the total value locked are
\* never negative.
C15_NonNegativeBalances ==
    /\ \A u \in Users : \A i \in 1 .. Len(userPositions[u]) :
          userPositions[u][i].principal >= 0 /\ userPositions[u][i].yield_earned >= 0
    /\ \A p \in DOMAIN pools :
          pools[p].total_deposited >= 0 /\ pools[p].total_yield_earned >= 0
    /\ tvl >= 0

-----------------------------------------------------------------------------
(* Properties of savings-challenge/lib.rs (SpecChallenge): finalization,   *)
(* contribution and creation                                               *)

\* The last step was a finalize_challenge on a stored challenge
FinalizesStored ==
    /\ lastCall'.op = "finalize_challenge"
    /\ lastCall'.challenge_id \in DOMAIN challenges

\* C16: finalize_challenge on an active challenge succeeds exactly when the
\* caller is the creator or a participant and current_amount >= goal_amount or
\* now > deadline; a successful call clears is_active; a call by the creator
\* or a participant when neither holds fails with InvalidParameters and leaves
\* the challenge active and unchanged.
C16_FinalizeWhenGoalOrDeadline ==
    [][(FinalizesStored /\ challenges[lastCall'.challenge_id].is_active)
       => LET c == challenges[lastCall'.challenge_id]
              c2 == challenges'[lastCall'.challenge_id]
              allowed == lastCall'.who = c.creator
                           \/ \E i \in 1 .. Len(c.participants) :
                                 c.participants[i] = lastCall'.who
              due == c.current_amount >= c.goal_amount \/ now > c.deadline
          IN /\ (lastCall'.result = "Ok") = (allowed /\ due)
             /\ lastCall'.result = "Ok" => ~c2.is_active
             /\ (allowed /\ ~due)
                  => lastCall'.result = "InvalidParameters" /\ c2 = c]_vars

\* A finalize_challenge has succeeded before the deadline, the goal being
\* reached.
C16_Witness ==
    /\ lastCall.op = "finalize_challenge" /\ lastCall.result = "Ok"
    /\ now <= challenges[lastCall.challenge_id].deadline
    /\ challenges[lastCall.challenge_id].current_amount
         >= challenges[lastCall.challenge_id].goal_amount
    /\ ~challenges[lastCall.challenge_id].is_active

\* C17: finalize_challenge by an address that is neither the creator nor a
\* participant of the challenge fails with NotAuthorized and leaves the
\* challenge unchanged, whatever the amount saved and the time.
C17_OutsiderCannotFinalize ==
    [][(/\ FinalizesStored
        /\ lastCall'.who # challenges[lastCall'.challenge_id].creator
        /\ \A i \in 1 .. Len(challenges[lastCall'.challenge_id].participants) :
              challenges[lastCall'.challenge_id].participants[i] # lastCall'.who)
       => /\ lastCall'.result = "NotAuthorized"
          /\ challenges' = challenges]_vars

\* An outsider's finalize_challenge has been rejected on an active challenge
\* whose goal was reached.
C17_Witness ==
    /\ lastCall.op = "finalize_challenge" /\ lastCall.result = "NotAuthorized"
    /\ lastCall.who # challenges[lastCall.challenge_id].creator
    /\ challenges[lastCall.challenge_id].is_active
    /\ challenges[lastCall.challenge_id].current_amount
         >= challenges[lastCall.challenge_id].goal_amount

\* The last step was a contribute call
Contributes == lastCall'.op = "contribute"

\* The rejected contribute wrote nothing
ContributeWroteNothing ==
    /\ challenges' = challenges
    /\ contributions' = contributions
    /\ participantStats' = participantStats

\* The tests of contribute on the state before the call
ContributionTooSmall == lastCall'.amount <= 0
ContributesToAbsent == lastCall'.challenge_id \notin DOMAIN challenges
ContributesToInactive ==
    /\ ~ContributesToAbsent
    /\ ~challenges[lastCall'.challenge_id].is_active
ContributesLate ==
    /\ ~ContributesToAbsent
    /\ now > challenges[lastCall'.challenge_id].deadline
ContributesAsOutsider ==
    /\ ~ContributesToAbsent
    /\ \A i \in 1 .. Len(challenges[lastCall'.challenge_id].participants) :
          challenges[lastCall'.challenge_id].participants[i] # lastCall'.who

\* A participant's positive contribution to an active challenge exactly at
\* the deadline succeeds
ContributionAtDeadlineSucceeds ==
    (/\ ~ContributionTooSmall /\ ~ContributesToAbsent /\ ~ContributesToInactive
     /\ ~ContributesAsOutsider
     /\ now = challenges[lastCall'.challenge_id].deadline)
    => lastCall'.result = "Ok"

\* C18 as stated: contribute fails and writes nothing when amount <= 0
\* (InsufficientAmount), the challenge is absent (ChallengeNotFound), is_active
\* is false (ChallengeInactive), now > deadline (ChallengeExpired) or the
\* contributor is no participant (NotParticipant); at now = deadline a
\* participant's contribution to an active challenge succeeds.
C18_ContributeErrors ==
    [][Contributes
       => /\ ContributionTooSmall
               => lastCall'.result = "InsufficientAmount" /\ ContributeWroteNothing
          /\ ContributesToAbsent
               => lastCall'.result = "ChallengeNotFound" /\ ContributeWroteNothing
          /\ ContributesToInactive
               => lastCall'.result = "ChallengeInactive" /\ ContributeWroteNothing
          /\ ContributesLate
               => lastCall'.result = "ChallengeExpired" /\ ContributeWroteNothing
          /\ ContributesAsOutsider
               => lastCall'.result = "NotParticipant" /\ ContributeWroteNothing
          /\ ContributionAtDeadlineSucceeds]_vars

\* C18 as amended: in each of the five cases contribute fails and writes
\* nothing, and the error is the one of the first case, in the order amount,
\* absent, inactive, late, outsider, that applies; at now = deadline a
\* participant's contribution to an active challenge succeeds.
C18_ContributeErrorsInOrder ==
    [][Contributes
       => /\ (\/ ContributionTooSmall \/ ContributesToAbsent \/ ContributesToInactive
              \/ ContributesLate \/ ContributesAsOutsider)
               => lastCall'.result # "Ok" /\ ContributeWroteNothing
          /\ ContributionTooSmall => lastCall'.result = "InsufficientAmount"
          /\ (ContributesToAbsent /\ ~ContributionTooSmall)
               => lastCall'.result = "ChallengeNotFound"
          /\ (ContributesToInactive /\ ~ContributionTooSmall)
               => lastCall'.result = "ChallengeInactive"
          /\ (ContributesLate /\ ~ContributionTooSmall /\ ~ContributesToInactive)
               => lastCall'.result = "ChallengeExpired"
          /\ (ContributesAsOutsider /\ ~ContributionTooSmall
                /\ ~ContributesToInactive /\ ~ContributesLate)
               => lastCall'.result = "NotParticipant"
          /\ ContributionAtDeadlineSucceeds]_vars

\* A contribution has succeeded exactly at the deadline.
C18_Witness ==
    /\ lastCall.op = "contribute" /\ lastCall.result = "Ok"
    /\ now = challenges[lastCall.challenge_id].deadline
    /\ contributions[lastCall.challenge_id] # << >>

\* The last step was a positive contribute by a participant, not after the
\* deadline, to a stored challenge whose goal was already reached
ContributesBeyondGoal ==
    /\ Contributes /\ ~ContributionTooSmall /\ ~ContributesToAbsent
    /\ ~ContributesAsOutsider /\ ~ContributesLate
    /\ challenges[lastCall'.challenge_id].current_amount
         >= challenges[lastCall'.challenge_id].goal_amount

\* A successful contribute leaves the challenge active, at the goal or not
ContributeKeepsActive ==
    (Contributes /\ lastCall'.result = "Ok")
    => challenges'[lastCall'.challenge_id].is_active

\* The contribution beyond the goal is accepted and added
ContributionBeyondGoalAccepted ==
    /\ lastCall'.result = "Ok"
    /\ challenges'[lastCall'.challenge_id].current_amount
         = challenges[lastCall'.challenge_id].current_amount + lastCall'.amount

\* C19 as stated: a contribute that reaches the goal leaves is_active true,
\* and participants' contributions before the deadline keep succeeding, past
\* the goal, until a finalize_challenge succeeds.
C19_OpenUntilFinalized ==
    [][/\ ContributeKeepsActive
       /\ (ContributesBeyondGoal /\ lastCall'.challenge_id \notin finalized)
            => ContributionBeyondGoalAccepted]_vars

\* C19 as amended: ... keep succeeding as long as is_active is true, that is
\* until a finalize_challenge succeeds or the administrator clears is_active
\* with set_challenge_active.
C19_OpenWhileActive ==
    [][/\ ContributeKeepsActive
       /\ (ContributesBeyondGoal /\ challenges[lastCall'.challenge_id].is_active)
            => ContributionBeyondGoalAccepted]_vars

\* A contribution has been accepted by a challenge that had reached its goal
\* before, and the challenge is still active.
C19_Witness ==
    /\ lastCall.op = "contribute" /\ lastCall.result = "Ok"
    /\ challenges[lastCall.challenge_id].is_active
    /\ challenges[lastCall.challenge_id].current_amount - lastCall.amount
         >= challenges[lastCall.challenge_id].goal_amount
    /\ lastCall.challenge_id \notin finalized

\* The arguments of the create_challenge of the last step break a
\* requirement.  (The call record holds goal_amount in amount and
\* duration_weeks in flag.)
CreatesInvalid ==
    \/ lastCall'.amount <= 0
    \/ lastCall'.weekly_amount <= 0
    \/ lastCall'.flag = 0
    \/ lastCall'.flag > 104
    \/ lastCall'.participants = << >>
    \/ lastCall'.name_len < 3

\* C20: create_challenge fails with InvalidParameters, stores no challenge
\* and no stats and leaves NextChallengeId, when goal_amount <= 0,
\* weekly_amount <= 0, duration_weeks is 0 or above 104, the participant list
\* is empty or the name is shorter than 3; otherwise it succeeds with
\* deadline = created_at + duration_weeks * 604800 and all-zero stats for
\* every listed participant.
C20_CreateChallengeValidation ==
    [][lastCall'.op = "create_challenge"
       => /\ CreatesInvalid
               => /\ lastCall'.result = "InvalidParameters"
                  /\ challenges' = challenges
                  /\ contributions' = contributions
                  /\ participantStats' = participantStats
                  /\ nextChallengeId' = nextChallengeId
          /\ ~CreatesInvalid
               => LET id == nextChallengeId
                  IN /\ lastCall'.result = "Ok"
                     /\ nextChallengeId' = id + 1
                     /\ id \notin DOMAIN challenges
                     /\ id \in DOMAIN challenges'
                     /\ challenges'[id].created_at = now
                     /\ challenges'[id].deadline
                          = challenges'[id].created_at + lastCall'.flag * 604800
                     /\ \A i \in 1 .. Len(lastCall'.participants) :
                          LET k == <<id, lastCall'.participants[i]>>
                          IN /\ k \in DOMAIN participantStats'
                             /\ participantStats'[k].total_contributed = 0
                             /\ participantStats'[k].contribution_count = 0
                             /\ participantStats'[k].last_contribution = 0
                             /\ participantStats'[k].current_streak = 0]_vars

\* A challenge of two participants has been created at a time other than 0.
C20_Witness ==
    /\ lastCall.op = "create_challenge" /\ lastCall.result = "Ok"
    /\ Len(lastCall.participants) = 2
    /\ challenges[lastCall.challenge_id].created_at > 0
    /\ <<lastCall.challenge_id, "u2">> \in DOMAIN participantStats

-----------------------------------------------------------------------------
(* savings-challenge/lib.rs : participant stats and the contribution log    *)

\* The Contribution records of one contributor, in the order of the log
ContributionsBy(challenge_id, user) ==
    SelectSeq(ContributionsOf(challenge_id), LAMBDA c : c.contributor = user)

\* Timestamp of the latest record of a list, 0 for the empty list
LatestTimestamp(list) ==
    IF list = << >> THEN 0
    ELSE CHOOSE t \in {list[i].timestamp : i \in 1 .. Len(list)} :
             \A i \in 1 .. Len(list) : list[i].timestamp <= t

\* C21: for every challenge and each of its participants, the stored
\* ParticipantStats agree with the contribution log: total_contributed is
\* the sum of the participant's Contribution amounts, contribution_count is
\* their number, and last_contribution is the timestamp of the latest one
\* (0 when there is none).
C21_StatsAgreeWithLog ==
    \A id \in DOMAIN challenges :
        \A i \in 1 .. Len(challenges[id].participants) :
            LET user == challenges[id].participants[i]
                mine == ContributionsBy(id, user)
                stats == StatsOf(id, user)
            IN /\ <<id, user>> \in DOMAIN participantStats
               /\ stats.total_contributed = SumAmounts(mine)
               /\ stats.contribution_count = Len(mine)
               /\ stats.last_contribution = LatestTimestamp(mine)

\* One participant has contributed twice, at different times, and another
\* participant of the same challenge has not contributed at all.
C21_Witness ==
    \E id \in DOMAIN challenges :
        /\ Len(ContributionsBy(id, "u1")) = 2
        /\ ContributionsBy(id, "u1")[1].timestamp
               < ContributionsBy(id, "u1")[2].timestamp
        /\ Contains(challenges[id].participants, "u2")
        /\ ContributionsBy(id, "u2") = << >>
        /\ StatsOf(id, "u1").contribution_count = 2

\* The contribution list of every stored challenge is kept as a prefix
ContributionLogsKept ==
    \A id \in DOMAIN contributions :
        /\ id \in DOMAIN contributions'
        /\ Len(contributions'[id]) >= Len(contributions[id])
        /\ SubSeq(contributions'[id], 1, Len(contributions[id]))
               = contributions[id]

\* Exactly one record is appended to the list of the challenge of the call,
\* it carries the caller, the amount, the timestamp and the week number of
\* the call, and every other list is the same
AppendsOneContribution ==
    LET id == lastCall'.challenge_id
        old == ContributionsOf(id)
        new == contributions'[id]
        week == ((now - challenges[id].created_at) \div 604800) + 1
    IN /\ id \in DOMAIN contributions'
       /\ Len(new) = Len(old) + 1
       /\ new[Len(new)] = [contributor |-> lastCall'.who,
                           amount |-> lastCall'.amount,
                           timestamp |-> now,
                           week_number |-> week]
       /\ week >= 1
       /\ \A other \in DOMAIN contributions \ {id} :
              contributions'[other] = contributions[other]

\* C22: the contribution log is append-only: a successful contribute appends
\* exactly one Contribution whose week_number is
\* floor((now - created_at)/604800) + 1, at least 1, and keeps the earlier
\* entries unchanged and in order; no operation removes or alters an entry.
C22_ContributionLogAppendOnly ==
    [][/\ ContributionLogsKept
       /\ (Contributes /\ lastCall'.result = "Ok") => AppendsOneContribution
       /\ ~(Contributes /\ lastCall'.result = "Ok") =>
              \A id \in DOMAIN contributions :
                  contributions'[id] = contributions[id]]_vars

\* A log holds a contribution of the first week followed by one of the
\* second week.
C22_Witness ==
    \E id \in DOMAIN contributions :
        /\ Len(contributions[id]) = 2
        /\ contributions[id][1].week_number = 1
        /\ contributions[id][2].week_number = 2
        /\ lastCall.op = "contribute" /\ lastCall.result = "Ok"

-----------------------------------------------------------------------------
(* reward-token/lib.rs : properties                                        *)

\* The last call was calculate_reward
Calculated == lastCall.op = "calculate_reward"

\* The quotient rounded toward minus infinity, and rounded toward zero
FloorQuotient(a, b) == a \div b
TruncatedQuotient(a, b) == IF a >= 0 THEN a \div b ELSE -((-a) \div b)

\* The factor of the contribution tiers: 12000 from 100 tokens, 11000 from
\* 50 tokens, else 10000
TierFactor(contribution_amount) ==
    IF contribution_amount >= 100 * Unit THEN 12000
    ELSE IF contribution_amount >= 50 * Unit THEN 11000
    ELSE 10000

\* The reference formula with every division rounded down
FlooredReward(config, contribution_amount, reward_type, streak_weeks) ==
    LET base ==
            CASE reward_type = "WeeklyContribution" -> config.base_weekly_reward
              [] reward_type = "MilestoneReached" ->
                     FloorQuotient(config.base_weekly_reward
                                       * config.milestone_multiplier, 10000)
              [] reward_type = "ChallengeCompleted" ->
                     FloorQuotient(config.base_weekly_reward
                                       * config.completion_multiplier, 10000)
              [] reward_type = "StreakBonus" ->
                     Min(streak_weeks * config.streak_bonus_per_week,
                         config.max_streak_bonus)
              [] reward_type = "ReferralBonus" -> config.referral_reward
    IN IF contribution_amount < config.min_contribution_for_reward THEN 0
       ELSE FloorQuotient(base * TierFactor(contribution_amount), 10000)

\* The reference formula with every division rounded toward zero
TruncatedReward(config, contribution_amount, reward_type, streak_weeks) ==
    LET base ==
            CASE reward_type = "WeeklyContribution" -> config.base_weekly_reward
              [] reward_type = "MilestoneReached" ->
                     TruncatedQuotient(config.base_weekly_reward
                                           * config.milestone_multiplier, 10000)
              [] reward_type = "ChallengeCompleted" ->
                     TruncatedQuotient(config.base_weekly_reward
                                           * config.completion_multiplier, 10000)
              [] reward_type = "StreakBonus" ->
                     Min(streak_weeks * config.streak_bonus_per_week,
                         config.max_streak_bonus)
              [] reward_type = "ReferralBonus" -> config.referral_reward
    IN IF contribution_amount < config.min_contribution_for_reward THEN 0
       ELSE TruncatedQuotient(base * TierFactor(contribution_amount), 10000)

\* No amount of the stored configuration is negative
ConfigNonNegative ==
    /\ rewardConfig.base_weekly_reward >= 0
    /\ rewardConfig.streak_bonus_per_week >= 0
    /\ rewardConfig.max_streak_bonus >= 0
    /\ rewardConfig.referral_reward >= 0

\* C23 as stated: calculate_reward returns the reference formula with floor
\* divisions for every input: 0 below min_contribution_for_reward, otherwise
\* floor(base * factor / 10000) with the base of the reward type and the
\* factor of the contribution tier.
C23_RewardIsFlooredFormula ==
    Calculated =>
        lastCall.value = FlooredReward(rewardConfig, lastCall.contribution_amount,
                                       lastCall.reward_type, lastCall.streak_weeks)

\* C23, amended: calculate_reward returns the reference formula with
\* divisions that round toward zero, which is the floor formula whenever no
\* amount of the configuration is negative; 60 tokens, WeeklyContribution
\* and the default configuration give 11 tokens.
C23_RewardIsTruncatedFormula ==
    Calculated =>
        /\ lastCall.value =
               TruncatedReward(rewardConfig, lastCall.contribution_amount,
                               lastCall.reward_type, lastCall.streak_weeks)
        /\ ConfigNonNegative =>
               lastCall.value =
                   FlooredReward(rewardConfig, lastCall.contribution_amount,
                                 lastCall.reward_type, lastCall.streak_weeks)
        /\ (/\ rewardConfig = DefaultConfig
            /\ lastCall.contribution_amount = 60 * Unit
            /\ lastCall.reward_type = "WeeklyContribution")
           => lastCall.value = 11 * Unit

\* calculate_reward has returned a rounded quotient for a contribution of the
\* middle tier, under a configuration that update_reward_config stored.
C23_Witness ==
    /\ Calculated
    /\ rewardConfig # DefaultConfig
    /\ ConfigNonNegative
    /\ lastCall.contribution_amount = 60 * Unit
    /\ lastCall.reward_type = "ReferralBonus"
    /\ lastCall.value = 27

\* The step is a mint_reward call; a successful one
Mints == lastCall'.op = "mint_reward"
MintsOk == Mints /\ lastCall'.result = "Ok"

\* The failed call wrote no balance, supply, history, statistic or counter
MintWroteNothing ==
    /\ balances' = balances
    /\ totalSupply' = totalSupply
    /\ rewardHistory' = rewardHistory
    /\ rewardStats' = rewardStats
    /\ totalRewards' = totalRewards

\* C24: mint_reward fails with NotMinter when the caller is not in the
\* minter list, which a successful remove_minter leaves the removed address
\* out of, and with InvalidAmount when a minter passes amount <= 0; a failed
\* mint_reward changes no balance, the total supply, no reward history, no
\* per-type statistic and not the total-rewards counter.
C24_MintRewardErrors ==
    [][/\ Mints =>
            /\ ~Contains(minters, lastCall'.who) =>
                   lastCall'.result = "NotMinter"
            /\ (Contains(minters, lastCall'.who) /\ lastCall'.amount <= 0) =>
                   lastCall'.result = "InvalidAmount"
            /\ lastCall'.result # "Ok" => MintWroteNothing
       /\ (lastCall'.op = "remove_minter" /\ lastCall'.result = "Ok") =>
            ~Contains(minters', lastCall'.to)]_vars

\* A minter that has minted for its challenge and was removed afterwards
\* calls mint_reward again and gets NotMinter.
C24_Witness ==
    /\ lastCall.op = "mint_reward"
    /\ lastCall.who = "m1"
    /\ lastCall.result = "NotMinter"
    /\ \E u \in Users : \E i \in 1 .. Len(rewardHistory[u]) :
           rewardHistory[u][i].challenge_id = ChallengeOfMinter("m1")
    /\ ~Contains(minters, "m1")

\* C25: a successful mint_reward(minter, to, amount, type, challenge,
\* multiplier) raises the balance of `to`, the total supply, the statistic of
\* `type` and the total-rewards counter by floor(amount * multiplier / 10000)
\* each, appends one RewardRecord with that amount to the history of `to`,
\* and changes no other balance, no other statistic and no earlier record.
C25_MintRewardEffect ==
    [][MintsOk =>
         LET to == lastCall'.to
             type == lastCall'.reward_type
             minted == (lastCall'.amount * lastCall'.multiplier) \div 10000
             old == rewardHistory[to]
             new == rewardHistory'[to]
         IN /\ balances'[to] = balances[to] + minted
            /\ totalSupply' = totalSupply + minted
            /\ rewardStats'[type] = rewardStats[type] + minted
            /\ totalRewards' = totalRewards + minted
            /\ Len(new) = Len(old) + 1
            /\ SubSeq(new, 1, Len(old)) = old
            /\ new[Len(new)].amount = minted
            /\ new[Len(new)].recipient = to
            /\ new[Len(new)].reward_type = type
            /\ \A id \in DOMAIN balances \ {to} : balances'[id] = balances[id]
            /\ \A t \in DOMAIN rewardStats \ {type} :
                   rewardStats'[t] = rewardStats[t]
            /\ \A id \in DOMAIN rewardHistory \ {to} :
                   rewardHistory'[id] = rewardHistory[id]]_vars

\* The second reward of a recipient was minted with multiplier 15000 from an
\* amount of 3, for a type other than that of the first reward.
C25_Witness ==
    /\ lastCall.op = "mint_reward" /\ lastCall.result = "Ok"
    /\ lastCall.amount = 3 /\ lastCall.multiplier = 15000
    /\ Len(rewardHistory[lastCall.to]) = 2
    /\ rewardHistory[lastCall.to][2].amount = 4
    /\ rewardHistory[lastCall.to][1].reward_type # lastCall.reward_type

-----------------------------------------------------------------------------
(* timelock_vault.rs : properties                                          *)

\* Tokens leave the vault in this step
VaultPays == vaultHeld' < vaultHeld

\* The deposit record of the user of the call is stored and still locked
CallBeforeLockTime ==
    /\ lastCall'.user \in DOMAIN vaultDeposits
    /\ now < vaultDeposits[lastCall'.user].lock_time

\* C26: a withdraw before the deposit's lock_time fails and leaves the
\* deposit record and TotalDeposits unchanged; tokens leave the vault before
\* lock_time only through emergency_withdraw authorized by the
\* administrator; and a deposit record is paid out at most once: a payment
\* is that of the amount of a record not yet withdrawn, which it marks
\* withdrawn, and a record marked withdrawn is only ever replaced by a new
\* deposit.
C26_Timelock ==
    [][/\ (lastCall'.op = "withdraw" /\ CallBeforeLockTime) =>
            /\ lastCall'.result # "Ok"
            /\ vaultDeposits' = vaultDeposits
            /\ totalDeposits' = totalDeposits
            /\ vaultHeld' = vaultHeld
       /\ (VaultPays /\ CallBeforeLockTime) =>
            /\ lastCall'.op = "emergency_withdraw"
            /\ lastCall'.who = vaultAdmin
       /\ VaultPays =>
            /\ lastCall'.op \in {"withdraw", "emergency_withdraw"}
            /\ lastCall'.user \in DOMAIN vaultDeposits
            /\ ~vaultDeposits[lastCall'.user].withdrawn
            /\ vaultDeposits'[lastCall'.user].withdrawn
            /\ vaultHeld - vaultHeld' = vaultDeposits[lastCall'.user].amount
            /\ \A u \in DOMAIN vaultDeposits \ {lastCall'.user} :
                   vaultDeposits'[u] = vaultDeposits[u]
       /\ \A u \in DOMAIN vaultDeposits :
            (vaultDeposits[u].withdrawn /\ ~vaultDeposits'[u].withdrawn) =>
                /\ lastCall'.op = "deposit"
                /\ lastCall'.user = u
                /\ lastCall'.result = "Ok"]_vars

\* One user's locked deposit has been paid out by emergency_withdraw, and
\* the other user's withdraw before lock_time has just failed.
C26_Witness ==
    /\ lastCall.op = "withdraw" /\ lastCall.result = "Trap"
    /\ lastCall.who = "u2" /\ lastCall.user = "u2"
    /\ "u2" \in DOMAIN vaultDeposits
    /\ ~vaultDeposits["u2"].withdrawn
    /\ now < vaultDeposits["u2"].lock_time
    /\ "u1" \in DOMAIN vaultDeposits
    /\ vaultDeposits["u1"].withdrawn
    /\ now < vaultDeposits["u1"].lock_time
    /\ vaultHeld = vaultDeposits["u2"].amount

-----------------------------------------------------------------------------
(* cross-border-yield/lib.rs : pool identifiers and administrator checks    *)

\* The step is a create_yield_pool call; a successful one
CreatesPool == lastCall'.op = "create_yield_pool"
CreatesPoolOk == CreatesPool /\ lastCall'.result = "Ok"

\* C27: pool identifiers are assigned 1, 2, 3, ... in order: a successful
\* create_yield_pool returns one more than the number of pools created
\* before it, an identifier under which no pool is stored, and leaves every
\* stored pool record in place; a failed call consumes no identifier.
C27_PoolIdsSequential ==
    [][/\ CreatesPoolOk =>
            /\ lastCall'.pool_id = Cardinality(DOMAIN pools) + 1
            /\ lastCall'.pool_id \notin DOMAIN pools
            /\ lastCall'.pool_id \in DOMAIN pools'
            /\ \A id \in DOMAIN pools : pools'[id] = pools[id]
       /\ (CreatesPool /\ ~CreatesPoolOk) =>
            /\ nextPoolId' = nextPoolId
            /\ pools' = pools]_vars

\* C28: create_yield_pool called with an admin argument that is not the
\* stored administrator, or while no administrator is stored, fails with
\* NotAuthorized, creates no pool, and leaves NextPoolId and the
\* exchange-rate table unchanged.
C28_CreatePoolNotAuthorized ==
    [][(CreatesPool /\ (admin = NoAdmin \/ lastCall'.who # admin)) =>
           /\ lastCall'.result = "NotAuthorized"
           /\ pools' = pools
           /\ nextPoolId' = nextPoolId
           /\ exchangeRates' = exchangeRates]_vars

\* create_yield_pool has been refused for a caller other than the stored
\* administrator while a pool and an exchange rate are stored.
C28_Witness ==
    /\ lastCall.op = "create_yield_pool"
    /\ lastCall.result = "NotAuthorized"
    /\ admin # NoAdmin
    /\ lastCall.who # admin
    /\ pools # << >>
    /\ PoolPair \in DOMAIN exchangeRates
    /\ nextPoolId = 2

\* The step is a distribute_yield call
CallsDistribute == lastCall'.op = "distribute_yield"

\* C29: distribute_yield called with an admin argument that is not the
\* stored administrator fails with NotAuthorized, and called by the
\* administrator for a pool that is not stored fails with PoolNotFound; in
\* both cases no position and no pool changes.
C29_DistributeAdminOnly ==
    [][CallsDistribute =>
           /\ lastCall'.who # admin => lastCall'.result = "NotAuthorized"
           /\ (lastCall'.who = admin /\ lastCall'.pool_id \notin DOMAIN pools) =>
                  lastCall'.result = "PoolNotFound"
           /\ lastCall'.result \in {"NotAuthorized", "PoolNotFound"} =>
                  /\ userPositions' = userPositions
                  /\ pools' = pools]_vars

\* distribute_yield has been refused for a caller other than the
\* administrator, on a stored pool that holds a deposit.
C29_Witness ==
    /\ lastCall.op = "distribute_yield"
    /\ lastCall.result = "NotAuthorized"
    /\ lastCall.who # admin
    /\ lastCall.pool_id \in DOMAIN pools
    /\ pools[lastCall.pool_id].total_deposited > 0

-----------------------------------------------------------------------------
(* savings_challenge.rs : milestone evaluation after a deposit             *)

\* The step is a successful deposit
Deposits == lastCall'.op = "deposit" /\ lastCall'.result = "Ok"

\* The participants of a challenge, as a set
ParticipantsOf(challenge) ==
    {challenge.participants[i] : i \in 1 .. Len(challenge.participants)}

RECURSIVE SavedByAll(_, _, _)
\* The sum of current_amount over the users S of a challenge, read from the
\* progress records up
SavedByAll(S, challenge_id, up) ==
    IF S = {} THEN 0
    ELSE LET u == CHOOSE x \in S : TRUE
         IN up[<<challenge_id, u>>].current_amount
            + SavedByAll(S \ {u}, challenge_id, up)

\* Every milestone of the list with target_amount <= amount is reached
AllReachedUpTo(milestones, amount) ==
    \A i \in 1 .. Len(milestones) :
        milestones[i].target_amount <= amount => milestones[i].reached

\* The milestones of after that were unreached in before carry the time
NewlyReachedAt(before, after, time) ==
    \A i \in 1 .. Len(after) :
        (after[i].reached /\ (i > Len(before) \/ ~before[i].reached)) =>
            after[i].reached_at = time

\* C30: immediately after a successful deposit by a user into a challenge,
\* every personal milestone of that user whose target_amount is at most the
\* user's current_amount is reached, every group milestone whose
\* target_amount is at most the sum of all participants' current_amount is
\* reached, and the milestones newly reached in the call have reached_at
\* equal to the call's timestamp.
C30_MilestoneEvaluationComplete ==
    [][Deposits =>
           LET id == lastCall'.challenge_id
               u == lastCall'.who
               saved == SavedByAll(ParticipantsOf(msChallenges'[id]), id,
                                   userProgress')
           IN /\ AllReachedUpTo(userMilestones'[<<id, u>>],
                                userProgress'[<<id, u>>].current_amount)
              /\ AllReachedUpTo(groupMilestones'[id], saved)
              /\ NewlyReachedAt(userMilestones[<<id, u>>],
                                userMilestones'[<<id, u>>], now')
              /\ NewlyReachedAt(groupMilestones[id], groupMilestones'[id],
                                now')]_vars

\* A deposit has just brought a user exactly to the target of a personal
\* milestone, with another personal milestone still above the amount, in a
\* challenge of several participants whose group milestone above that
\* user's own amount is reached at the time of the call.
C30_Witness ==
    /\ lastCall.op = "deposit"
    /\ lastCall.result = "Ok"
    /\ now > 0
    /\ LET id == lastCall.challenge_id
           u == lastCall.who
           um == userMilestones[<<id, u>>]
           gm == groupMilestones[id]
           amount == userProgress[<<id, u>>].current_amount
       IN /\ \E i \in 1 .. Len(um) :
                 /\ um[i].target_amount = amount
                 /\ um[i].reached
                 /\ um[i].reached_at = now
          /\ \E i \in 1 .. Len(um) : ~um[i].reached
          /\ \E i \in 1 .. Len(gm) :
                 /\ gm[i].target_amount > amount
                 /\ gm[i].reached
                 /\ gm[i].reached_at = now
          /\ Len(msChallenges[id].participants) > 1

-----------------------------------------------------------------------------
(* savings_challenge.rs : streaks                                          *)

\* C31: a participant's first deposit sets streak_weeks to 1, and after any
\* successful deposit the depositor's streak_weeks is at least 1, in
\* whichever week the deposit falls.
C31_DepositStreakAtLeastOne ==
    [][Deposits =>
           LET k == <<lastCall'.challenge_id, lastCall'.who>>
           IN /\ userProgress'[k].streak_weeks >= 1
              /\ userProgress[k].deposits_history = << >> =>
                     userProgress'[k].streak_weeks = 1]_vars

-----------------------------------------------------------------------------
(* savings_challenge.rs : the group target                                 *)

\* C32: in every reachable state, the group_target of every stored challenge
\* is the number of its participants times its target_amount.
C32_GroupTargetIsSumOfTargets ==
    \A id \in DOMAIN msChallenges :
        msChallenges[id].group_target =
            Len(msChallenges[id].participants) * msChallenges[id].target_amount

-----------------------------------------------------------------------------
(* reward-token/lib.rs : conservation and bookkeeping                      *)

RECURSIVE SumBalances(_)
\* The sum of the stored balances of the accounts S
SumBalances(S) ==
    IF S = {} THEN 0
    ELSE LET a == CHOOSE x \in S : TRUE
         IN balances[a] + SumBalances(S \ {a})

\* C33: in every state reached by mint_reward, transfer and transfer_from
\* calls, with any from, to and spender, the balances of all accounts add up
\* to total_supply and no balance is negative.
C33_TokenConservation ==
    /\ SumBalances(DOMAIN balances) = totalSupply
    /\ \A a \in DOMAIN balances : balances[a] >= 0

-----------------------------------------------------------------------------
(* savings_challenge.rs : personal milestones                              *)

\* C34: in every reachable state, a personal milestone of a participant is
\* reached only if that participant's current_amount is at least the
\* milestone's target_amount.
C34_PersonalMilestoneOnlyIfSaved ==
    \A k \in DOMAIN userMilestones :
        \A i \in 1 .. Len(userMilestones[k]) :
            userMilestones[k][i].reached =>
                userProgress[k].current_amount >= userMilestones[k][i].target_amount

-----------------------------------------------------------------------------
(* timelock_vault.rs : accounting                                          *)

RECURSIVE SumOpenDeposits(_)
\* The sum of amount over the stored deposit records of the users S that are
\* not withdrawn
SumOpenDeposits(S) ==
    IF S = {} THEN 0
    ELSE LET u == CHOOSE x \in S : TRUE
         IN (IF vaultDeposits[u].withdrawn THEN 0 ELSE vaultDeposits[u].amount)
            + SumOpenDeposits(S \ {u})

\* C35: in every state reached by deposit, withdraw and emergency_withdraw
\* calls, TotalDeposits is the sum of amount over the stored deposit records
\* that are not withdrawn.
C35_TotalDepositsIsSumOfOpenDeposits ==
    totalDeposits = SumOpenDeposits(DOMAIN vaultDeposits)

-----------------------------------------------------------------------------
(* cross-border-yield/lib.rs : initialize and the counters                 *)

\* C36: once an administrator is stored, no initialize call, by any address,
\* changes the stored administrator, NextPoolId or TotalValueLocked.
C36_InitializeAtMostOnce ==
    [][(lastCall'.op = "initialize" /\ admin # NoAdmin) =>
           /\ admin' = admin
           /\ nextPoolId' = nextPoolId
           /\ tvl' = tvl]_vars

-----------------------------------------------------------------------------
(* cross-border-yield/lib.rs : total value locked                          *)

RECURSIVE SumTotalDeposited(_)
\* The sum of total_deposited over the stored pools S
SumTotalDeposited(S) ==
    IF S = {} THEN 0
    ELSE LET p == CHOOSE x \in S : TRUE
         IN pools[p].total_deposited + SumTotalDeposited(S \ {p})

\* C37: in every state reached by create_yield_pool, deposit_to_pool and
\* distribute_yield calls, TotalValueLocked is the sum of total_deposited
\* over all pools.
C37_TvlIsSumOfTotalDeposited ==
    tvl = SumTotalDeposited(DOMAIN pools)

RECURSIVE SumRewardStats(_)
\* The sum of RewardStats over the reward types S
SumRewardStats(S) ==
    IF S = {} THEN 0
    ELSE LET t == CHOOSE x \in S : TRUE
         IN rewardStats[t] + SumRewardStats(S \ {t})

RECURSIVE SumRecordAmounts(_)
\* The sum of amount over a list of RewardRecords
SumRecordAmounts(list) ==
    IF list = << >> THEN 0
    ELSE Head(list).amount + SumRecordAmounts(Tail(list))

RECURSIVE SumHistories(_)
\* The sum of amount over the reward histories of the users S
SumHistories(S) ==
    IF S = {} THEN 0
    ELSE LET u == CHOOSE x \in S : TRUE
         IN SumRecordAmounts(rewardHistory[u]) + SumHistories(S \ {u})

\* C38: in every reachable state of the token contract, total_supply,
\* TotalRewards, the sum of RewardStats over the five reward types and the
\* sum of amount over the RewardRecords of all users' histories are equal.
C38_RewardBookkeepingConsistent ==
    /\ totalSupply = totalRewards
    /\ totalRewards = SumRewardStats(RewardTypes)
    /\ totalRewards = SumHistories(DOMAIN rewardHistory)

\* Rewards of two types have been minted to two users, one of them with a
\* multiplier that leaves a remainder, and tokens have since been
\* transferred.
C38_Witness ==
    /\ rewardStats["WeeklyContribution"] > 0
    /\ rewardStats["StreakBonus"] > 0
    /\ \A u \in Users : rewardHistory[u] # << >>
    /\ \E u \in Users : \E i \in 1 .. Len(rewardHistory[u]) :
           /\ rewardHistory[u][i].multiplier = 15000
           /\ \A a \in MintAmounts :
                  rewardHistory[u][i].amount * BasisPoints # a * 15000
    /\ lastCall.op = "transfer"
    /\ lastCall.result = "Ok"

-----------------------------------------------------------------------------
(* savings_challenge.rs : completion                                       *)

\* The step is a successful complete_challenge
Completes == lastCall'.op = "complete_challenge" /\ lastCall'.result = "Ok"

\* No address occurs twice in the list
NoDuplicates(list) ==
    \A i, j \in 1 .. Len(list) : list[i] = list[j] => i = j

\* C39: complete_challenge succeeds for a challenge and a user at most once
\* (only for a user not yet completed, and a completed user stays completed),
\* only when the user's current_amount is at least the target_amount and the
\* challenge's duration has elapsed; completed_users never holds an address
\* twice and holds only participants.
C39_CompletedAtMostOnce ==
    [][/\ Completes =>
            LET id == lastCall'.challenge_id
                k == <<lastCall'.challenge_id, lastCall'.who>>
            IN /\ ~userProgress[k].completed
               /\ ~Contains(msChallenges[id].completed_users, lastCall'.who)
               /\ userProgress[k].current_amount >= msChallenges[id].target_amount
               /\ now >= msChallenges[id].start_time
                           + msChallenges[id].duration_days * 24 * 60 * 60
       /\ \A k \in DOMAIN userProgress :
              userProgress[k].completed => userProgress'[k].completed
       /\ \A id \in DOMAIN msChallenges' :
              /\ NoDuplicates(msChallenges'[id].completed_users)
              /\ \A i \in 1 .. Len(msChallenges'[id].completed_users) :
                     Contains(msChallenges'[id].participants,
                              msChallenges'[id].completed_users[i])]_vars

\* The state InitJoined describes, as the calls of SpecMilestones reach it
JoinedStateReached ==
    /\ totalChallenges = 1
    /\ msChallenges =
           (0 :> [NewMsChallenge(0, MsCreator, 4, 7, 500, 1, 0) EXCEPT
                      !.participants = <<MsCreator>>,
                      !.group_target = 8])
    /\ userProgress = (<<0, MsCreator>> :> NewUserProgress(0))
    /\ groupMilestones = (0 :> DefaultMilestones(4))
    /\ userMilestones = (<<0, MsCreator>> :> DefaultMilestones(4))
    /\ now = 0
    /\ lastCall = MsCall("join_challenge", MsCreator, 0, 0, "Ok")

-----------------------------------------------------------------------------
(* timelock_vault.rs : can_withdraw and withdraw                           *)

\* The step is a withdraw(user) call signed by the user
WithdrawsOwn == lastCall'.op = "withdraw" /\ lastCall'.who = lastCall'.user

\* C40: in every reachable state and for every user, can_withdraw(user) is
\* true exactly when a withdraw(user) call made at that timestamp passes its
\* checks (a deposit is stored, it is not withdrawn, the lock time has come):
\* the call then pays out, and otherwise it traps.
C40_CanWithdrawPredictsWithdraw ==
    [][WithdrawsOwn =>
           (CanWithdraw(lastCall'.user) <=> lastCall'.result = "Ok")]_vars

\* withdraw has just been refused for a user whose stored deposit is open and
\* still locked, while the other user's deposit has been paid out.
C40_Witness ==
    /\ lastCall.op = "withdraw"
    /\ lastCall.who = lastCall.user
    /\ lastCall.result = "Trap"
    /\ lastCall.user \in DOMAIN vaultDeposits
    /\ ~vaultDeposits[lastCall.user].withdrawn
    /\ now > 0
    /\ now < vaultDeposits[lastCall.user].lock_time
    /\ ~CanWithdraw(lastCall.user)
    /\ \E u \in DOMAIN vaultDeposits : vaultDeposits[u].withdrawn

=============================================================================
